---------------------------- MODULE Spec2Model ----------------------------
(***************************************************************************)
(* A model of the "view" tool: the viewfile library (view/viewfile.py),    *)
(* the git probes (view/gitutils.py) and the repository cache of the       *)
(* ViewDiffer (view/diff.py).                                              *)
(*                                                                         *)
(* Strings are sequences of one-character strings, so that printing,       *)
(* line splitting, the comment regular expression and str.split() are      *)
(* computed character by character, as the Python code computes them.      *)
(***************************************************************************)
EXTENDS Integers, Sequences, FiniteSets, TLC

VARIABLES
    view,     \* viewfile.py: the entries of the ViewFile object being built
    fp,       \* the text of the file object that dump writes and parse reads
    parsed,   \* the outcome of the last viewfile.parse(fp)
    origin,   \* history: how the text in fp was produced
    from_,    \* viewfile.diff: entries of the first ViewFile
    to,       \* viewfile.diff: entries of the second ViewFile
    res,      \* the last call of diff / ViewFile.__eq__ and what it returned
    remote,   \* per url: the git objects of the upstream repository
    mirror,   \* per url: the directory _repo_cache_path(url) of the cache
    call,     \* the last call into gitutils / ViewDiffer and its outcome
    trees,    \* per commit of the view's repository: the text of its viewfile
    hash_order, \* the order in which a dict iterates the directory names
    heads,    \* per url and branch: the commit the upstream branch points at
    clone,    \* viewpoller.py: the poller's working clone of the view
    notified, \* viewpoller.py: the calls made to the listener, in order
    loop,     \* viewpoller.py: where ViewPoller.run is, and its last round
    work,     \* view.py: per directory of the view, the repository there
    batch,    \* view.py: the last call of update_repos and what it did
    paths,    \* diff.py: the paths that exist where the caches are kept
    differ,   \* diff.py: a ViewDiffer object and where its with block is
    walk      \* view.py: a run of walk_up and of the command that reads it

textVars == <<view, fp, parsed, origin>>
diffVars == <<from_, to, res>>
cacheVars == <<remote, mirror, call>>
worldVars == <<trees, hash_order>>
loopVars == <<heads, clone, notified, loop>>
batchVars == <<work, batch>>
scopeVars == <<paths, differ>>
walkVars == <<walk>>
vars == <<textVars, diffVars, cacheVars, worldVars, loopVars, batchVars, scopeVars, walkVars>>

-----------------------------------------------------------------------------
(* Bounds of the model *)

MaxDumpEntries == 2     \* entries appended to a ViewFile before it is dumped
MaxLines == 3           \* lines of a hand-written viewfile
MaxDiffEntries == 2     \* entries of each ViewFile handed to diff and ==
MaxHashes == 2          \* length of a list of required hashes
MaxChanges == 2         \* entries changed between two viewfiles of a view
MaxMoves == 2           \* pushes to the branches that the poller reads
MaxTemp == 2            \* names that tempfile.mkdtemp can give out
MaxDepth == 2           \* directories below the root on the deepest path
MaxViews == 2           \* directories of the tree that hold a view.txt

BoundedSeq(S, n) == UNION {[1..k -> S] : k \in 0..n}

-----------------------------------------------------------------------------
(* Python strings *)

\* The characters str.split() and the regular expression class \s treat as
\* white space (those that occur in the model's texts).
Whitespace == {" ", "\t", "\n"}

RECURSIVE lstrip(_)
lstrip(s) ==
    IF s # <<>> /\ Head(s) \in Whitespace THEN lstrip(Tail(s)) ELSE s

RECURSIVE WordLen(_)
WordLen(s) ==
    IF s = <<>> \/ Head(s) \in Whitespace THEN 0 ELSE 1 + WordLen(Tail(s))

\* line.split(): the maximal runs of non-white-space characters, in order.
RECURSIVE split(_)
split(s) ==
    LET r == lstrip(s) IN
    IF r = <<>> THEN <<>>
    ELSE LET n == WordLen(r) IN
         <<SubSeq(r, 1, n)>> \o split(SubSeq(r, n + 1, Len(r)))

RECURSIVE LineLen(_)
LineLen(s) ==
    IF s = <<>> THEN 0
    ELSE IF Head(s) = "\n" THEN 1
    ELSE 1 + LineLen(Tail(s))

\* "for line in fp": the text cut after every newline, the newline kept; a
\* last line without a newline is a line too.
RECURSIVE readlines(_)
readlines(text) ==
    IF text = <<>> THEN <<>>
    ELSE LET n == LineLen(text) IN
         <<SubSeq(text, 1, n)>> \o readlines(SubSeq(text, n + 1, Len(text)))

-----------------------------------------------------------------------------
(* view/viewfile.py *)

None == [none |-> TRUE]

ViewFileEntry(dir_, url, vcs, branch, revision) ==
    [dir |-> dir_, url |-> url, vcs |-> vcs, branch |-> branch,
     revision |-> revision]

\* ViewFileEntry.__eq__: same class and equal __dict__.
ViewFileEntry_eq(self, other) ==
    IF other = None THEN FALSE
    ELSE /\ self.dir = other.dir
         /\ self.url = other.url
         /\ self.vcs = other.vcs
         /\ self.branch = other.branch
         /\ self.revision = other.revision

ViewFileEntry_ne(self, other) == ~ViewFileEntry_eq(self, other)

\* A ViewFile comparison that forgets the order of the entries.
ViewFile_eq_unordered(self, other) ==
    /\ \A i \in 1..Len(self) :
           \E j \in 1..Len(other) : ViewFileEntry_eq(self[i], other[j])
    /\ \A j \in 1..Len(other) :
           \E i \in 1..Len(self) : ViewFileEntry_eq(other[j], self[i])

\* ViewFile.__eq__: equal __dict__, that is equal lists of entries: the same
\* length and pairwise equal elements, in order.
RECURSIVE ViewFile_eq(_, _)
ViewFile_eq(self, other) ==
    IF self = <<>> \/ other = <<>> THEN self = <<>> /\ other = <<>>
    ELSE /\ ViewFileEntry_eq(Head(self), Head(other))
         /\ ViewFile_eq(Tail(self), Tail(other))

\* print(entry.dir, entry.url, entry.vcs, entry.branch, entry.revision):
\* the five fields separated by one space and ended by a newline.
PrintEntry(entry) ==
    entry.dir \o <<" ">> \o entry.url \o <<" ">> \o entry.vcs \o <<" ">>
        \o entry.branch \o <<" ">> \o entry.revision \o <<"\n">>

\* ViewFile.dump
RECURSIVE dump(_)
dump(entries) ==
    IF entries = <<>> THEN <<>>
    ELSE PrintEntry(Head(entries)) \o dump(Tail(entries))

\* A comment pattern that does not allow white space before the '#'.
IsSkippedNoIndent(line) ==
    \/ lstrip(line) = <<>>
    \/ (line # <<>> /\ Head(line) = "#")

\* re.match(r"(\s*#|\s*$)", line): the first character that is not white
\* space is '#', or there is none.
IsSkipped(line) ==
    LET r == lstrip(line) IN r = <<>> \/ Head(r) = "#"

\* A field count check that only rejects lines with too few fields.
WrongFieldCountTooFew(words) == Len(words) < 5

\* len(words) != 5
WrongFieldCount(words) == Len(words) # 5

ParseError == [raised |-> TRUE, entries |-> <<>>]
Returned(entries) == [raised |-> FALSE, entries |-> entries]

RECURSIVE ParseLines(_, _)
ParseLines(ls, entries) ==
    IF ls = <<>> THEN Returned(entries)
    ELSE IF IsSkipped(Head(ls)) THEN ParseLines(Tail(ls), entries)
    ELSE LET words == split(Head(ls)) IN
         IF WrongFieldCount(words) THEN ParseError
         ELSE ParseLines(Tail(ls),
                         Append(entries,
                                ViewFileEntry(words[1], words[2], words[3],
                                              words[4], words[5])))

\* viewfile.parse
parse(text) == ParseLines(readlines(text), <<>>)

\* The dictionary {entry.dir: entry for entry in entries}: a later entry
\* replaces an earlier one with the same directory.
Dirs(entries) == {entries[i].dir : i \in 1..Len(entries)}

LastIndex(entries, d) ==
    CHOOSE i \in 1..Len(entries) :
        /\ entries[i].dir = d
        /\ \A j \in (i + 1)..Len(entries) : entries[j].dir # d

FirstIndex(entries, d) ==
    CHOOSE i \in 1..Len(entries) :
        /\ entries[i].dir = d
        /\ \A j \in 1..(i - 1) : entries[j].dir # d

DictByDir(entries) ==
    [d \in Dirs(entries) |-> entries[LastIndex(entries, d)]]

DictByDirFirstWins(entries) ==
    [d \in Dirs(entries) |-> entries[FirstIndex(entries, d)]]

\* dict.get(key): the value, or None
Get(dict, key) == IF key \in DOMAIN dict THEN dict[key] ELSE None

\* x != y on two values that are entries or None (Python 2: the entry's
\* __ne__ decides, from whichever side holds an entry).
NotEqual(x, y) ==
    IF x # None THEN ViewFileEntry_ne(x, y)
    ELSE IF y # None THEN ViewFileEntry_ne(y, x)
    ELSE FALSE

\* diff with the first dictionary keeping the first entry of a directory.
diff_first_wins(a, b) ==
    LET from_dict == DictByDirFirstWins(a)
        to_dict == DictByDir(b)
        all_dirs == DOMAIN from_dict \cup DOMAIN to_dict
    IN [d \in {x \in all_dirs : NotEqual(Get(from_dict, x), Get(to_dict, x))}
            |-> <<Get(from_dict, d), Get(to_dict, d)>>]

\* diff that only looks at the directories of the new viewfile.
diff_new_dirs_only(a, b) ==
    LET from_dict == DictByDir(a)
        to_dict == DictByDir(b)
        all_dirs == DOMAIN to_dict
    IN [d \in {x \in all_dirs : NotEqual(Get(from_dict, x), Get(to_dict, x))}
            |-> <<Get(from_dict, d), Get(to_dict, d)>>]

\* diff that compares the two entries of a directory by revision only.
diff_revision_only(a, b) ==
    LET from_dict == DictByDir(a)
        to_dict == DictByDir(b)
        all_dirs == DOMAIN from_dict \cup DOMAIN to_dict
        Rev(e) == IF e = None THEN <<>> ELSE e.revision
    IN [d \in {x \in all_dirs :
                   Rev(Get(from_dict, x)) # Rev(Get(to_dict, x))}
            |-> <<Get(from_dict, d), Get(to_dict, d)>>]

\* viewfile.diff
diff(a, b) ==
    LET from_dict == DictByDir(a)
        to_dict == DictByDir(b)
        all_dirs == DOMAIN from_dict \cup DOMAIN to_dict
    IN [d \in {x \in all_dirs : NotEqual(Get(from_dict, x), Get(to_dict, x))}
            |-> <<Get(from_dict, d), Get(to_dict, d)>>]

-----------------------------------------------------------------------------
(* Git repositories *)

\* The url of an upstream repository.
Urls == {"git://foo/foo"}

\* Object ids: c1 is a root commit, c2 a commit whose parent is c1, and t1
\* an annotated tag of c1. An id names one object, so its type is fixed.
Hashes == {"c1", "c2", "t1"}

Kind(h) == IF h = "t1" THEN "tag" ELSE "commit"

\* The ids of three more histories, each a line of commits: p, q, r (the
\* repository of a view), a, b, c and x, y (repositories the view lists).
\* The id z names no object of any repository.
Roots == {"c1", "p", "a", "x"}

\* The parent of a commit that is not a root, the commit a tag points at.
Parent(h) ==
    CASE h = "c2" -> "c1"
      [] h = "t1" -> "c1"
      [] h = "q" -> "p"
      [] h = "r" -> "q"
      [] h = "b" -> "a"
      [] h = "c" -> "b"
      [] h = "y" -> "x"

\* The objects an object refers to: a repository that holds an object
\* holds these too.
Refs(h) == IF h \in Roots \cup {"z"} THEN {} ELSE {Parent(h)}

Closed(objs) == \A h \in objs : Refs(h) \subseteq objs

\* A path of the cache directory: nothing there; a directory that is not a
\* usable git repository; a bare repository with these objects.
Absent == [exists |-> FALSE, git |-> FALSE, objs |-> {}]
Broken == [exists |-> TRUE, git |-> FALSE, objs |-> {}]
Repo(objs) == [exists |-> TRUE, git |-> TRUE, objs |-> objs]

RECURSIVE rstrip(_)
rstrip(s) ==
    IF s # <<>> /\ s[Len(s)] \in Whitespace
    THEN rstrip(SubSeq(s, 1, Len(s) - 1))
    ELSE s

-----------------------------------------------------------------------------
(* view/gitutils.py *)

\* subprocess.check_output(['git', 'cat-file', '-t', commit], cwd=repo), repo
\* an existing directory: the object's type and a newline, or a non-zero
\* exit (no repository there, or no such object), which check_output
\* raises as CalledProcessError.
CatFileT(repo, commit) ==
    IF repo.git /\ commit \in repo.objs
    THEN [raised |-> "", output |-> <<Kind(commit), "\n">>]
    ELSE [raised |-> "CalledProcessError", output |-> <<>>]

\* commit_exists without the comparison of the type: any object will do.
commit_exists_any_type(repo, commit) ==
    LET r == CatFileT(repo, commit) IN
    IF r.raised = "CalledProcessError"
    THEN [raised |-> "", value |-> FALSE]
    ELSE [raised |-> "", value |-> TRUE]

\* commit_exists: what it raises (nothing: "") and what it returns.
commit_exists(repo, commit) ==
    LET r == CatFileT(repo, commit) IN
    IF r.raised = "CalledProcessError"
    THEN [raised |-> "", value |-> FALSE]
    ELSE [raised |-> "", value |-> rstrip(r.output) = <<"commit">>]

\* commits_exist: the loop returns False at the first commit that does not
\* exist, and True after the last.
RECURSIVE commits_exist(_, _)
commits_exist(repo, commits) ==
    IF commits = <<>> THEN [raised |-> "", value |-> TRUE]
    ELSE LET r == commit_exists(repo, Head(commits)) IN
         IF r.raised # "" THEN r
         ELSE IF ~r.value THEN [raised |-> "", value |-> FALSE]
         ELSE commits_exist(repo, Tail(commits))

-----------------------------------------------------------------------------
(* view/diff.py: the repository cache of the ViewDiffer *)

\* What a call of _ensure_repo did: the directory it leaves, the commands it
\* ran, how it ended, the directory that shutil.rmtree removed (None when
\* the call did not get that far), and the exceptions its except clause
\* caught and passed over.
Outcome(m, ops, result, discarded, caught) ==
    [mirror |-> m, ops |-> ops, result |-> result, discarded |-> discarded,
     caught |-> caught]

\* The directory after git fetch ran in it: a repository gains the objects
\* the command stored, anything else stays as it was.
AfterFetch(m, fetched) ==
    IF m.exists /\ m.git THEN Repo(m.objs \cup fetched) ELSE m

\* _ensure_repo that fetches without looking at the mirror first.
EnsureRepoAlwaysFetch(m, upstream, required_hashes, fetch_ok, fetched, clone_ok) ==
    LET updated == AfterFetch(m, fetched)
        tried == IF m.exists THEN <<"fetch">> ELSE <<>>
        caught == IF m.exists /\ ~fetch_ok
                  THEN <<"CalledProcessError">> ELSE <<>>
    IN
    IF m.exists /\ fetch_ok /\ commits_exist(updated, required_hashes).value
    THEN Outcome(updated, tried, "returned", None, <<>>)
    ELSE IF clone_ok
    THEN Outcome(Repo(upstream), tried \o <<"rmtree", "clone">>, "returned",
                 updated, caught)
    ELSE Outcome(Absent, tried \o <<"rmtree", "clone">>,
                 "CalledProcessError", updated, caught)

\* _ensure_repo that goes straight to the clone when the mirror lacks a hash.
EnsureRepoNoFetch(m, upstream, required_hashes, fetch_ok, fetched, clone_ok) ==
    IF m.exists /\ commits_exist(m, required_hashes).value
    THEN Outcome(m, <<>>, "returned", None, <<>>)
    ELSE IF clone_ok
    THEN Outcome(Repo(upstream), <<"rmtree", "clone">>, "returned", m, <<>>)
    ELSE Outcome(Absent, <<"rmtree", "clone">>, "CalledProcessError", m,
                 <<>>)

\* _ensure_repo that prunes the mirror even when nothing is missing.
EnsureRepoPrunesOnHit(m, upstream, required_hashes, fetch_ok, fetched, clone_ok) ==
    IF m.exists /\ commits_exist(m, required_hashes).value
    THEN Outcome(IF m.git THEN Repo(m.objs \cap upstream) ELSE m, <<>>,
                 "returned", None, <<>>)
    ELSE
    LET updated == AfterFetch(m, fetched)
        tried == IF m.exists THEN <<"fetch">> ELSE <<>>
        caught == IF m.exists /\ ~fetch_ok
                  THEN <<"CalledProcessError">> ELSE <<>>
    IN
    IF m.exists /\ fetch_ok /\ commits_exist(updated, required_hashes).value
    THEN Outcome(updated, tried, "returned", None, <<>>)
    ELSE IF clone_ok
    THEN Outcome(Repo(upstream), tried \o <<"rmtree", "clone">>, "returned",
                 updated, caught)
    ELSE Outcome(Absent, tried \o <<"rmtree", "clone">>,
                 "CalledProcessError", updated, caught)

\* _ensure_repo(url, required_hashes) on the mirror m of url, upstream being
\* the objects of the repository at url. The environment decides how git
\* fetch ends (fetch_ok: exit status zero) and which objects it stored before
\* it ended (fetched), and whether git clone succeeds (clone_ok). A failing
\* fetch raises CalledProcessError, which the except clause passes over: the
\* mirror is then not looked at again before it is removed. ops lists the
\* commands that change the mirror or use the network, in the order they ran.
EnsureRepo(m, upstream, required_hashes, fetch_ok, fetched, clone_ok) ==
    IF m.exists /\ commits_exist(m, required_hashes).value
    THEN Outcome(m, <<>>, "returned", None, <<>>)
    ELSE
    LET updated == AfterFetch(m, fetched)
        tried == IF m.exists THEN <<"fetch">> ELSE <<>>
        caught == IF m.exists /\ ~fetch_ok
                  THEN <<"CalledProcessError">> ELSE <<>>
    IN
    IF m.exists /\ fetch_ok /\ commits_exist(updated, required_hashes).value
    THEN Outcome(updated, tried, "returned", None, <<>>)
    ELSE IF clone_ok
    THEN Outcome(Repo(upstream), tried \o <<"rmtree", "clone">>, "returned",
                 updated, caught)
    ELSE Outcome(Absent, tried \o <<"rmtree", "clone">>,
                 "CalledProcessError", updated, caught)

\* The commits reachable from an id (a tag stands for the commit it tags).
RECURSIVE Ancestors(_)
Ancestors(h) ==
    IF h \in Roots THEN {h}
    ELSE IF Kind(h) = "tag" THEN Ancestors(Parent(h))
    ELSE {h} \cup Ancestors(Parent(h))

\* The number of commits reachable from a commit.
Depth(h) == Cardinality(Ancestors(h))

\* A set of commits of one linear history, newest first.
RECURSIVE NewestFirst(_)
NewestFirst(commits) ==
    IF commits = {} THEN <<>>
    ELSE LET newest == CHOOSE h \in commits :
                           \A g \in commits : Depth(g) <= Depth(h)
         IN <<newest>> \o NewestFirst(commits \ {newest})

\* subprocess.check_output(['git', 'log', '--format=%H', new_hash,
\* '^' + old_hash], cwd=repo).split(): the commits reachable from new_hash
\* and not from old_hash, newest first; a non-zero exit when the repository
\* lacks one of the two.
GitLog(repo, new_hash, old_hash) ==
    IF repo.git /\ {new_hash, old_hash} \subseteq repo.objs
    THEN [raised |-> "",
          output |-> NewestFirst(Ancestors(new_hash) \ Ancestors(old_hash))]
    ELSE [raised |-> "CalledProcessError", output |-> <<>>]

\* list.reverse()
reverse(s) == [i \in 1..Len(s) |-> s[Len(s) + 1 - i]]

\* Whether git fetch can succeed in this directory: not when it is no
\* repository; in a repository the network decides.
FetchOutcomes(m) == IF m.exists /\ m.git THEN BOOLEAN ELSE {FALSE}

\* The objects git fetch can have stored when it ends: all of the upstream's
\* when it succeeds; when it fails, none (the remote was not reached) or all
\* (git fetch is not atomic: it exits non-zero when the update or the
\* pruning of one ref fails, after the objects have arrived).
Fetched(m, upstream, fetch_ok) ==
    IF ~(m.exists /\ m.git) THEN {{}}
    ELSE IF fetch_ok THEN {upstream}
    ELSE {{}, upstream}

\* Every required id is a commit of the repository at this path.
HasAll(m, required_hashes) ==
    \A i \in 1..Len(required_hashes) :
        /\ m.git
        /\ required_hashes[i] \in m.objs
        /\ Kind(required_hashes[i]) = "commit"

NetworkOps(ops) == Len(SelectSeq(ops, LAMBDA o : o \in {"fetch", "clone"}))

IdleCache ==
    /\ remote = [url \in Urls |-> {}]
    /\ mirror = [url \in Urls |-> Absent]
    /\ call = None

\* What an earlier call has to do with this one: the record of the call just
\* before, when it was the same operation on the same url with the same
\* hashes and the cache was left alone in between.
Before(op, url, hashes) ==
    IF call # None /\ call.op = op /\ call.url = url /\ call.req = hashes
    THEN [ops |-> call.ops, result |-> call.result,
          satisfied |-> HasAll(mirror[url], hashes)]
    ELSE None

\* gitutils.commits_exist(path, commits), path an existing directory (both
\* call sites test os.path.exists first)
CommitsExist(url, commits) ==
    /\ mirror[url].exists
    /\ LET r == commits_exist(mirror[url], commits) IN
       call' = [op |-> "commits_exist", url |-> url, req |-> commits,
                ops |-> <<>>,
                result |-> IF r.raised = "" THEN "returned" ELSE r.raised,
                value |-> r.value, queried |-> FALSE, out |-> <<>>,
                start |-> mirror[url], discarded |-> None, caught |-> <<>>,
                prev |-> None]
    /\ UNCHANGED <<remote, mirror, textVars, diffVars,
                 worldVars, loopVars, batchVars, scopeVars, walkVars>>

\* ViewDiffer._ensure_repo(url, required_hashes)
Ensure(url, required_hashes) ==
    \E fetch_ok \in FetchOutcomes(mirror[url]), clone_ok \in BOOLEAN :
    \E fetched \in Fetched(mirror[url], remote[url], fetch_ok) :
        LET r == EnsureRepo(mirror[url], remote[url], required_hashes,
                            fetch_ok, fetched, clone_ok)
        IN /\ mirror' = [mirror EXCEPT ![url] = r.mirror]
           /\ call' = [op |-> "_ensure_repo", url |-> url,
                       req |-> required_hashes, ops |-> r.ops,
                       result |-> r.result, value |-> FALSE,
                       queried |-> FALSE, out |-> <<>>,
                       start |-> mirror[url], discarded |-> r.discarded,
                       caught |-> r.caught,
                       prev |-> Before("_ensure_repo", url, required_hashes)]
           /\ UNCHANGED <<remote, textVars, diffVars,
                 worldVars, loopVars, batchVars, scopeVars, walkVars>>

\* ViewDiffer._get_repo_commits(url, old_hash, new_hash)
GetRepoCommits(url, old_hash, new_hash) ==
    \E fetch_ok \in FetchOutcomes(mirror[url]), clone_ok \in BOOLEAN :
    \E fetched \in Fetched(mirror[url], remote[url], fetch_ok) :
        LET r == EnsureRepo(mirror[url], remote[url], <<old_hash, new_hash>>,
                            fetch_ok, fetched, clone_ok)
            log == GitLog(r.mirror, new_hash, old_hash)
            queried == r.result = "returned"
        IN /\ mirror' = [mirror EXCEPT ![url] = r.mirror]
           /\ call' = [op |-> "_get_repo_commits", url |-> url,
                       req |-> <<old_hash, new_hash>>, ops |-> r.ops,
                       result |-> IF ~queried THEN r.result
                                  ELSE IF log.raised # "" THEN log.raised
                                  ELSE "returned",
                       value |-> FALSE,
                       queried |-> queried,
                       out |-> IF queried THEN reverse(log.output) ELSE <<>>,
                       start |-> mirror[url], discarded |-> r.discarded,
                       caught |-> r.caught,
                       prev |-> None]
           /\ UNCHANGED <<remote, textVars, diffVars,
                 worldVars, loopVars, batchVars, scopeVars, walkVars>>

\* The upstream repository gains an object (a push).
Push(url, h) ==
    /\ h \notin remote[url]
    /\ Closed(remote[url] \cup {h})
    /\ remote' = [remote EXCEPT ![url] = @ \cup {h}]
    /\ UNCHANGED <<mirror, call, textVars, diffVars,
                 worldVars, loopVars, batchVars, scopeVars, walkVars>>

\* The upstream repository loses an object (a branch or tag is deleted, or
\* force-pushed to another history).
Rewind(url, h) ==
    /\ h \in remote[url]
    /\ Closed(remote[url] \ {h})
    /\ remote' = [remote EXCEPT ![url] = @ \ {h}]
    /\ UNCHANGED <<mirror, call, textVars, diffVars,
                 worldVars, loopVars, batchVars, scopeVars, walkVars>>

\* Somebody else removes the mirror's directory, or leaves it unusable.
Disturb(url, m) ==
    /\ mirror[url].exists
    /\ mirror[url] # m
    /\ mirror' = [mirror EXCEPT ![url] = m]
    /\ call' = None
    /\ UNCHANGED <<remote, textVars, diffVars,
                 worldVars, loopVars, batchVars, scopeVars, walkVars>>

-----------------------------------------------------------------------------
(* Inputs of the viewfile specifications *)

Fields == {"dir", "url", "vcs", "branch", "revision"}

\* An entry whose five fields are plain tokens.
TokenEntry == ViewFileEntry(<<"f">>, <<"u">>, <<"G">>, <<"m">>, <<"H">>)

\* Field values a ViewFileEntry accepts (its constructor checks nothing) that
\* are not plain tokens: the empty string, a string with a space in it, a
\* string that starts with '#', and a token with a '#' inside.
OddFields == {<<>>, <<"a", " ", "b">>, <<"#", "a">>, <<"a", "#">>}

DumpEntries ==
    {TokenEntry, [TokenEntry EXCEPT !.dir = <<"g">>]}
        \cup {[TokenEntry EXCEPT ![k] = v] : k \in Fields, v \in OddFields}

\* A line of a hand-written viewfile, with what its author meant by it:
\* kind is "blank", "comment" or "entry", fields are the tokens of an entry
\* line, text is the line as written (without its newline).
SourceLine(kind, fields, text) ==
    [kind |-> kind, fields |-> fields, text |-> text]

RECURSIVE Join(_, _)
Join(words, sep) ==
    IF words = <<>> THEN <<>>
    ELSE IF Len(words) = 1 THEN Head(words)
    ELSE Head(words) \o sep \o Join(Tail(words), sep)

EntryLine(indent, fields, sep, trail) ==
    SourceLine("entry", fields, indent \o Join(fields, sep) \o trail)

SourceLines ==
    { SourceLine("blank", <<>>, <<>>),
      SourceLine("blank", <<>>, <<" ", "\t">>),
      SourceLine("comment", <<>>, <<"#", "a">>),
      SourceLine("comment", <<>>,
                 <<" ", "#", "a", " ", "b", " ", "c", " ", "d", " ", "e">>),
      EntryLine(<<>>, <<<<"a">>, <<"b">>, <<"c">>, <<"d">>, <<"e">>>>,
                <<" ">>, <<>>),
      EntryLine(<<" ">>, <<<<"f">>, <<"g">>, <<"h">>, <<"i">>, <<"j">>>>,
                <<" ", "\t">>, <<" ">>),
      EntryLine(<<>>,
                <<<<"k">>, <<"#", "l">>, <<"m">>, <<"n">>, <<"o", "#">>>>,
                <<" ">>, <<>>),
      EntryLine(<<>>, <<<<"a">>>>, <<" ">>, <<>>),
      EntryLine(<<>>, <<<<"a">>, <<"b">>, <<"c">>, <<"d">>>>, <<" ">>, <<>>),
      EntryLine(<<>>, <<<<"a">>, <<"b">>, <<"c">>, <<"d">>, <<"e">>, <<"f">>>>,
                <<" ">>, <<>>),
      EntryLine(<<>>,
                <<<<"a">>, <<"b">>, <<"c">>, <<"d">>, <<"e">>, <<"#", "x">>>>,
                <<" ">>, <<>>) }

\* The text of a file with these lines; its last line ends with a newline
\* iff newline.
RECURSIVE RenderText(_, _)
RenderText(ls, newline) ==
    IF ls = <<>> THEN <<>>
    ELSE IF Len(ls) = 1
         THEN Head(ls).text \o (IF newline THEN <<"\n">> ELSE <<>>)
    ELSE Head(ls).text \o <<"\n">> \o RenderText(Tail(ls), newline)

\* The entries of the tests (test_viewfile.py, _make_simple_entry), and two
\* more that differ from them in the revision and in the url.
GIT == <<"G", "I", "T">>
master == <<"m">>
dev == <<"d">>
HEAD == <<"H", "E", "A", "D">>
foo == <<"f", "o", "o">>
bar == <<"b", "a", "r">>
foo_entry == ViewFileEntry(foo, <<"u", "f">>, GIT, master, HEAD)
foo_dev_entry == ViewFileEntry(foo, <<"u", "f">>, GIT, dev, HEAD)
foo_pinned_entry == ViewFileEntry(foo, <<"u", "f">>, GIT, master, <<"7">>)
bar_entry == ViewFileEntry(bar, <<"u", "b">>, GIT, master, HEAD)
bar_moved_entry == ViewFileEntry(bar, <<"u", "x">>, GIT, master, HEAD)

DiffEntries ==
    {foo_entry, foo_dev_entry, foo_pinned_entry, bar_entry, bar_moved_entry}

-----------------------------------------------------------------------------
(* The viewfile library in use *)

IdleText ==
    /\ view = <<>>
    /\ fp = <<>>
    /\ parsed = None
    /\ origin = [kind |-> "none"]

IdleDiff ==
    /\ from_ = <<>>
    /\ to = <<>>
    /\ res = None

IdleWorld ==
    /\ trees = <<>>
    /\ hash_order = <<>>

IdleLoop ==
    /\ heads = <<>>
    /\ clone = None
    /\ notified = <<>>
    /\ loop = None

IdleBatch ==
    /\ work = <<>>
    /\ batch = None

IdleScope ==
    /\ paths = {}
    /\ differ = None

IdleWalk == walk = None

IdleOthers == IdleWorld /\ IdleLoop /\ IdleBatch /\ IdleScope /\ IdleWalk

\* view.entries.append(entry)
AppendEntry(entry) ==
    /\ Len(view) < MaxDumpEntries
    /\ view' = Append(view, entry)
    /\ UNCHANGED <<fp, parsed, origin, diffVars, cacheVars,
                 worldVars, loopVars, batchVars, scopeVars, walkVars>>

\* view.dump(f) on a fresh file f
Dump ==
    /\ fp' = dump(view)
    /\ origin' = [kind |-> "dump", entries |-> view]
    /\ parsed' = None
    /\ UNCHANGED <<view, diffVars, cacheVars,
                 worldVars, loopVars, batchVars, scopeVars, walkVars>>

\* viewfile.parse(f) on the file as it is
Parse ==
    /\ parsed' = parse(fp)
    /\ UNCHANGED <<view, fp, origin, diffVars, cacheVars,
                 worldVars, loopVars, batchVars, scopeVars, walkVars>>

\* viewfile.diff(a, b)
Diff(a, b) ==
    /\ res' = [op |-> "diff", a |-> a, b |-> b, out |-> diff(a, b)]
    /\ UNCHANGED <<from_, to, textVars, cacheVars,
                 worldVars, loopVars, batchVars, scopeVars, walkVars>>

\* a == b on two ViewFile objects
Equal(a, b) ==
    /\ res' = [op |-> "eq", a |-> a, b |-> b, out |-> ViewFile_eq(a, b)]
    /\ UNCHANGED <<from_, to, textVars, cacheVars,
                 worldVars, loopVars, batchVars, scopeVars, walkVars>>

\* A ViewFile is built entry by entry, dumped, and the dump parsed.
InitDump == IdleText /\ IdleDiff /\ IdleCache /\ IdleOthers

NextDump ==
    \/ \E entry \in DumpEntries : AppendEntry(entry)
    \/ Dump
    \/ Parse

SpecDump == InitDump /\ [][NextDump]_vars

\* A hand-written viewfile is parsed.
InitParse ==
    /\ \E ls \in BoundedSeq(SourceLines, MaxLines), newline \in BOOLEAN :
          /\ origin = [kind |-> "text", lines |-> ls]
          /\ fp = RenderText(ls, newline)
    /\ view = <<>>
    /\ parsed = None
    /\ IdleDiff
    /\ IdleCache
    /\ IdleOthers

NextParse == Parse

SpecParse == InitParse /\ [][NextParse]_vars

\* Two ViewFiles are compared.
InitDiff ==
    /\ from_ \in BoundedSeq(DiffEntries, MaxDiffEntries)
    /\ to \in BoundedSeq(DiffEntries, MaxDiffEntries)
    /\ res = None
    /\ IdleText
    /\ IdleCache
    /\ IdleOthers

NextDiff ==
    \/ \E a \in {from_, to}, b \in {from_, to} : Diff(a, b)
    \/ \E a \in {from_, to}, b \in {from_, to} : Equal(a, b)

SpecDiff == InitDiff /\ [][NextDiff]_vars

\* The cache is used while the upstream repositories change.
InitCache == IdleText /\ IdleDiff /\ IdleCache /\ IdleOthers

NextCache ==
    \/ \E url \in Urls, hashes \in BoundedSeq(Hashes, MaxHashes) :
          CommitsExist(url, hashes)
    \/ \E url \in Urls, hashes \in BoundedSeq(Hashes, MaxHashes) :
          Ensure(url, hashes)
    \/ \E url \in Urls, old_hash \in Hashes, new_hash \in Hashes :
          GetRepoCommits(url, old_hash, new_hash)
    \/ \E url \in Urls, h \in Hashes : Push(url, h)
    \/ \E url \in Urls, h \in Hashes : Rewind(url, h)
    \/ \E url \in Urls, m \in {Absent, Broken} : Disturb(url, m)

SpecCache == InitCache /\ [][NextCache]_vars

-----------------------------------------------------------------------------
(* view/diff.py: the commits between two versions of a view *)

\* The urls of the view's repository and of the repositories it lists.
ViewUrl == <<"u", "v">>
FooUrl == <<"u", "f">>
BarUrl == <<"u", "b">>
BarForkUrl == <<"u", "x">>
ViewDifferUrls == {ViewUrl, FooUrl, BarUrl, BarForkUrl}

ViewHashes == {"p", "q", "r"}

\* The commits of the repository at a url.
Upstream(url) ==
    IF url = ViewUrl THEN ViewHashes
    ELSE IF url = FooUrl THEN {"a", "b", "c"}
    ELSE {"x", "y"}

\* The object a revision names: the ids of this model are one character long.
ObjectId(revision) == revision[1]

\* What the environment does to the git commands of one call: the urls that
\* cannot be reached (fetch and clone of them exit non-zero) and the local
\* command that exits non-zero whenever it is run ("none": no such command).
Env(down, fails) == [down |-> down, fails |-> fails]

LocalCommands == {"fetch", "show", "log", "log --no-walk"}

Envs ==
    {Env({}, "none")}
        \cup {Env({url}, "none") : url \in ViewDifferUrls}
        \cup {Env({}, cmd) : cmd \in LocalCommands}

\* A git command that was run, other than the probe git cat-file: its
\* name, the url of the repository it was run for, and whether it exited
\* with status zero.
Ran(cmd, url, ok) == [cmd |-> cmd, url |-> url, ok |-> ok]

\* The result of a step: what it raised ("" for nothing), what it returned,
\* the cache it leaves, and the commands it ran, in order.
Result(mirrors, exception, out, ran) ==
    [mirror |-> mirrors, raised |-> exception, out |-> out, ran |-> ran]

Raised(mirrors, exception, ran) == Result(mirrors, exception, <<>>, ran)

\* subprocess.check_output(['git', 'show', rev + ':' + filename], cwd=repo):
\* the text of the viewfile of that commit, a non-zero exit when the
\* repository has no such commit or the commit no such file.
GitShow(repo, rev, files, env) ==
    IF env.fails # "show" /\ repo.git /\ rev \in repo.objs
           /\ rev \in DOMAIN files
    THEN [raised |-> "", output |-> files[rev]]
    ELSE [raised |-> "CalledProcessError", output |-> <<>>]

\* read_view_from_repo(repo, rev), repo being the mirror of url
read_view_from_repo(repo, url, rev, files, env) ==
    LET shown == GitShow(repo, rev, files, env)
        view_ == parse(shown.output)
    IN IF shown.raised # ""
       THEN [raised |-> shown.raised, entries |-> <<>>,
             ran |-> <<Ran("show", url, FALSE)>>]
       ELSE [raised |-> IF view_.raised THEN "ParseError" ELSE "",
             entries |-> view_.entries, ran |-> <<Ran("show", url, TRUE)>>]

\* The fetch and the clone that a call of _ensure_repo ran, from its record.
RanOf(url, ensured) ==
    [k \in 1..NetworkOps(ensured.ops) |->
        LET cmd == SelectSeq(ensured.ops,
                             LAMBDA o : o \in {"fetch", "clone"})[k]
        IN Ran(cmd, url, IF cmd = "fetch" THEN ensured.caught = <<>>
                         ELSE ensured.result = "returned")]

\* _ensure_repo on the cache, the network and git fetch being as env says.
EnsureIn(mirrors, url, required_hashes, env) ==
    LET fetch_ok == url \notin env.down /\ env.fails # "fetch" IN
    EnsureRepo(mirrors[url], Upstream(url), required_hashes, fetch_ok,
               IF fetch_ok THEN Upstream(url) ELSE {},
               url \notin env.down)

\* The end of _get_repo_commits with a failing git log taken for an empty
\* history.
RepoLogQuiet(ensured, log, cache, url) ==
    Result(cache, "", reverse(log.output),
           Append(RanOf(url, ensured), Ran("log", url, log.raised = "")))

\* The end of _get_repo_commits: git log's output, split and reversed;
\* check_output raises when git log fails.
RepoLog(ensured, log, cache, url) ==
    IF log.raised # ""
    THEN Raised(cache, log.raised,
                Append(RanOf(url, ensured), Ran("log", url, FALSE)))
    ELSE Result(cache, "", reverse(log.output),
                Append(RanOf(url, ensured), Ran("log", url, TRUE)))

\* _get_repo_commits once _ensure_repo is over: ensured is its outcome.
RepoCommits(ensured, mirrors, url, old_hash, new_hash, env) ==
    IF ensured.result # "returned"
    THEN Raised([mirrors EXCEPT ![url] = ensured.mirror], ensured.result,
                RanOf(url, ensured))
    ELSE RepoLog(ensured,
                 IF env.fails = "log"
                 THEN [raised |-> "CalledProcessError", output |-> <<>>]
                 ELSE GitLog(ensured.mirror, new_hash, old_hash),
                 [mirrors EXCEPT ![url] = ensured.mirror], url)

\* _get_repo_commits(url, old_hash, new_hash)
get_repo_commits(mirrors, url, old_hash, new_hash, env) ==
    RepoCommits(EnsureIn(mirrors, url, <<old_hash, new_hash>>, env),
                mirrors, url, old_hash, new_hash, env)

\* is_same_branch(a, b), nested in get_commit_hashes
is_same_branch(a, b) ==
    /\ a # None
    /\ b # None
    /\ <<a.vcs, a.url, a.branch>> = <<b.vcs, b.url, b.branch>>

Task(url, branch, old_hash, new_hash) ==
    [url |-> url, branch |-> branch, old_hash |-> old_hash,
     new_hash |-> new_hash]

\* The comprehension without its condition: every changed directory that
\* both views list gives a tuple.
RECURSIVE UpdatedAnyBranch(_, _)
UpdatedAnyBranch(changes, order) ==
    IF order = <<>> THEN <<>>
    ELSE LET dir_ == Head(order)
             rest == UpdatedAnyBranch(changes, Tail(order))
         IN IF dir_ \in DOMAIN changes
                  /\ changes[dir_][1] # None /\ changes[dir_][2] # None
            THEN <<Task(changes[dir_][1].url, changes[dir_][1].branch,
                        ObjectId(changes[dir_][1].revision),
                        ObjectId(changes[dir_][2].revision))>> \o rest
            ELSE rest

\* The list comprehension over changes.iteritems(): one tuple for each
\* changed directory whose two entries are on the same branch, in the order
\* in which the dict hands out its keys.
RECURSIVE Updated(_, _)
Updated(changes, order) ==
    IF order = <<>> THEN <<>>
    ELSE LET dir_ == Head(order)
             rest == Updated(changes, Tail(order))
         IN IF dir_ \in DOMAIN changes
                  /\ is_same_branch(changes[dir_][1], changes[dir_][2])
            THEN <<Task(changes[dir_][1].url, changes[dir_][1].branch,
                        ObjectId(changes[dir_][1].revision),
                        ObjectId(changes[dir_][2].revision))>> \o rest
            ELSE rest

\* The commits of a tuple left newest first.
WithRepoNewestFirst(task, repo_commits) ==
    [k \in 1..Len(repo_commits) |->
        <<task.url, task.branch, repo_commits[Len(repo_commits) + 1 - k]>>]

\* [(url, branch, commit) for commit in repo_commits]
WithRepo(task, repo_commits) ==
    [k \in 1..Len(repo_commits) |->
        <<task.url, task.branch, repo_commits[k]>>]

\* The loop over updated: the commits of each tuple in turn, each with the
\* url and branch of its tuple; the first command that fails ends it.
\* CommitsAfter is the rest of the loop body once _get_repo_commits gave got.
RECURSIVE CommitsOf(_, _, _, _, _)
RECURSIVE CommitsAfter(_, _, _, _, _)
CommitsAfter(got, updated, commits, ran, env) ==
    IF got.raised # ""
    THEN Raised(got.mirror, got.raised, ran \o got.ran)
    ELSE CommitsOf(Tail(updated), got.mirror,
                   commits \o WithRepo(Head(updated), got.out),
                   ran \o got.ran, env)

CommitsOf(updated, mirrors, commits, ran, env) ==
    IF updated = <<>> THEN Result(mirrors, "", commits, ran)
    ELSE CommitsAfter(get_repo_commits(mirrors, Head(updated).url,
                                       Head(updated).old_hash,
                                       Head(updated).new_hash, env),
                      updated, commits, ran, env)

\* The views of the two hashes, diffed, and the tuples to look up: the
\* changed directories that kept their branch, then the view itself.
TasksOf(old_view, new_view, order, view_url, view_branch, view_old_hash, view_new_hash) ==
    Append(Updated(diff(old_view, new_view), order),
           Task(view_url, view_branch, view_old_hash, view_new_hash))

\* The result of get_commit_hashes with the tuples it looked up.
WithUpdated(commits, updated) ==
    [mirror |-> commits.mirror, raised |-> commits.raised,
     out |-> commits.out, ran |-> commits.ran, updated |-> updated]

\* A loop that takes the tuples in the reverse order when the cache has no
\* mirror of foo's repository.
HashesOfTasksByCache(updated, cache, ran, env) ==
    WithUpdated(CommitsOf(IF cache[FooUrl].exists THEN updated
                          ELSE reverse(updated),
                          cache, <<>>, ran, env),
                updated)

\* get_commit_hashes from the list of tuples on.
HashesOfTasks(updated, cache, ran, env) ==
    WithUpdated(CommitsOf(updated, cache, <<>>, ran, env), updated)

\* get_commit_hashes once both views are read (or reading one has failed).
HashesOfViews(old_view, new_view, cache, ran, order, view_url, view_branch, view_old_hash, view_new_hash, env) ==
    IF old_view.raised # ""
    THEN Raised(cache, old_view.raised, ran \o old_view.ran)
    ELSE IF new_view.raised # ""
    THEN Raised(cache, new_view.raised, ran \o old_view.ran \o new_view.ran)
    ELSE HashesOfTasks(TasksOf(old_view.entries, new_view.entries, order,
                               view_url, view_branch, view_old_hash,
                               view_new_hash),
                       cache, ran \o old_view.ran \o new_view.ran, env)

\* get_commit_hashes once _ensure_repo is over: ensured is its outcome.
HashesAfterEnsure(ensured, mirrors, files, order, view_url, view_branch, view_old_hash, view_new_hash, env) ==
    IF ensured.result # "returned"
    THEN Raised([mirrors EXCEPT ![view_url] = ensured.mirror],
                ensured.result, RanOf(view_url, ensured))
    ELSE HashesOfViews(read_view_from_repo(ensured.mirror, view_url,
                                           view_old_hash, files, env),
                       read_view_from_repo(ensured.mirror, view_url,
                                           view_new_hash, files, env),
                       [mirrors EXCEPT ![view_url] = ensured.mirror],
                       RanOf(view_url, ensured), order, view_url,
                       view_branch, view_old_hash, view_new_hash, env)

\* ViewDiffer.get_commit_hashes(view_url, view_branch, view_old_hash,
\* view_new_hash) on the cache mirrors; files are the viewfiles of the
\* view's commits and order the dict's iteration order.
get_commit_hashes(mirrors, files, order, view_url, view_branch, view_old_hash, view_new_hash, env) ==
    HashesAfterEnsure(EnsureIn(mirrors, view_url,
                               <<view_old_hash, view_new_hash>>, env),
                      mirrors, files, order, view_url, view_branch,
                      view_old_hash, view_new_hash, env)

\* subprocess.check_output(['git', 'log', '--no-walk', ...], cwd=path): one
\* attribute of one commit, a non-zero exit when the repository lacks it.
GitLogNoWalk(repo, hash_, attribute, env) ==
    IF env.fails # "log --no-walk" /\ repo.git /\ hash_ \in repo.objs
    THEN [raised |-> "", output |-> <<attribute, hash_>>]
    ELSE [raised |-> "CalledProcessError", output |-> <<>>]

\* Commit(...) as _get_commit_info builds it.
Commit(filenames, who, repository, branch, revision, comments, when, view_repository, view_branch) ==
    [filenames |-> filenames, who |-> who, repository |-> repository,
     branch |-> branch, revision |-> revision, comments |-> comments,
     when |-> when, view_repository |-> view_repository,
     view_branch |-> view_branch]

\* A value that may be None: the value itself is kept in a record.
Some(value) == [some |-> value]

\* A test that takes no commit for one of the view.
never_view_commit(url, branch, view_url, view_branch) == FALSE

\* is_view_commit = (url, branch) == (view_url, view_branch)
is_view_commit(url, branch, view_url, view_branch) ==
    <<url, branch>> = <<view_url, view_branch>>

\* _get_commit_info(url, branch, hash_), nested in get_commits: four reads
\* of the mirror of url, which is not ensured again.
get_commit_info(mirrors, url, branch, hash_, view_url, view_branch, env) ==
    LET repo == mirrors[url]
        filenames == GitLogNoWalk(repo, hash_, "files", env)
        who == GitLogNoWalk(repo, hash_, "author", env)
        comments == GitLogNoWalk(repo, hash_, "message", env)
        when == GitLogNoWalk(repo, hash_, "time", env)
        parent_url == IF is_view_commit(url, branch, view_url, view_branch)
                      THEN None ELSE Some(view_url)
        parent_branch == IF is_view_commit(url, branch, view_url,
                                           view_branch)
                         THEN None ELSE Some(view_branch)
    IN IF filenames.raised # ""
       THEN Raised(mirrors, filenames.raised,
                   <<Ran("log --no-walk", url, FALSE)>>)
       ELSE Result(mirrors, "",
                   Commit(filenames.output, who.output, url, branch, hash_,
                          comments.output, when.output, parent_url,
                          parent_branch),
                   [k \in 1..4 |-> Ran("log --no-walk", url, TRUE)])

\* The list comprehension of get_commits over the hashes.
RECURSIVE CommitInfos(_, _, _, _, _, _, _)
CommitInfos(hashes, mirrors, commits, ran, view_url, view_branch, env) ==
    IF hashes = <<>> THEN Result(mirrors, "", commits, ran)
    ELSE LET info == get_commit_info(mirrors, Head(hashes)[1],
                                     Head(hashes)[2], Head(hashes)[3],
                                     view_url, view_branch, env)
         IN IF info.raised # ""
            THEN Raised(mirrors, info.raised, ran \o info.ran)
            ELSE CommitInfos(Tail(hashes), mirrors,
                             Append(commits, info.out), ran \o info.ran,
                             view_url, view_branch, env)

\* The second statement of get_commits, on what get_commit_hashes gave.
CommitsFor(hashes, view_url, view_branch, env) ==
    IF hashes.raised # "" THEN Raised(hashes.mirror, hashes.raised,
                                      hashes.ran)
    ELSE CommitInfos(hashes.out, hashes.mirror, <<>>, hashes.ran,
                     view_url, view_branch, env)

\* ViewDiffer.get_commits(view_url, view_branch, old_hash, new_hash)
get_commits(mirrors, files, order, view_url, view_branch, old_hash, new_hash, env) ==
    CommitsFor(get_commit_hashes(mirrors, files, order, view_url,
                                 view_branch, old_hash, new_hash, env),
               view_url, view_branch, env)

\* The views of this specification: the old one pins foo to a and bar to x;
\* the new one may pin foo to c, take foo from another branch or name
\* another version control system for it, pin bar to y or take bar from
\* another url.
Pinned(entry, id) == [entry EXCEPT !.revision = <<id>>]

OldView == <<Pinned(foo_entry, "a"), Pinned(bar_entry, "x")>>

NewEntries ==
    {Pinned(foo_entry, "c"), Pinned(foo_dev_entry, "c"),
     [Pinned(foo_entry, "c") EXCEPT !.vcs = <<"H", "G">>],
     Pinned(bar_entry, "y"), Pinned(bar_moved_entry, "y")}

\* A view with one entry changed: rewritten in place (same directory), or
\* taken out.
Changed(entries) ==
    {[entries EXCEPT ![pick[1]] = pick[2]] :
        pick \in {x \in (1..Len(entries)) \X NewEntries :
                      x[2].dir = entries[x[1]].dir}}
    \cup {SelectSeq(entries, LAMBDA e : e.dir # dir_) : dir_ \in {foo, bar}}

\* The views at most n changes away from the old one.
RECURSIVE NewViews(_)
NewViews(n) ==
    IF n = 0 THEN {OldView}
    ELSE NewViews(n - 1) \cup UNION {Changed(v) : v \in NewViews(n - 1)}

\* The calls made: the older and the newer hash either way round, and a
\* hash the view's repository does not have.
HashPairs == {<<"p", "r">>, <<"r", "p">>, <<"z", "r">>}

\* What is known of a call when it is over (updated is empty when the call
\* did not get as far as the list of tuples).
Called(op, view_old_hash, view_new_hash, r) ==
    [op |-> op, url |-> ViewUrl, branch |-> master,
     req |-> <<view_old_hash, view_new_hash>>,
     result |-> IF r.raised = "" THEN "returned" ELSE r.raised,
     out |-> r.out, ran |-> r.ran,
     updated |-> IF "updated" \in DOMAIN r THEN r.updated ELSE <<>>]

\* A call is over: the cache is as the call left it, and the call is on
\* record.
Finish(op, view_old_hash, view_new_hash, r) ==
    /\ mirror' = r.mirror
    /\ call' = Called(op, view_old_hash, view_new_hash, r)

\* differ.get_commit_hashes(view_url, view_branch, old_hash, new_hash)
GetCommitHashes(view_old_hash, view_new_hash, env) ==
    /\ Finish("get_commit_hashes", view_old_hash, view_new_hash,
              get_commit_hashes(mirror, trees, hash_order, ViewUrl, master,
                                view_old_hash, view_new_hash, env))
    /\ UNCHANGED <<remote, trees, hash_order, textVars, diffVars, loopVars,
                   batchVars, scopeVars, walkVars>>

\* differ.get_commits(view_url, view_branch, old_hash, new_hash)
GetCommits(old_hash, new_hash, env) ==
    /\ Finish("get_commits", old_hash, new_hash,
              get_commits(mirror, trees, hash_order, ViewUrl, master,
                          old_hash, new_hash, env))
    /\ UNCHANGED <<remote, trees, hash_order, textVars, diffVars, loopVars,
                   batchVars, scopeVars, walkVars>>

\* The view's repository has the commits p, q and r: p and q hold one
\* viewfile, r another. The cache holds a mirror of the view's repository
\* made when p was its only commit, and nothing else.
InitViewDiffer ==
    /\ \E new_view \in NewViews(MaxChanges) :
          trees = [h \in ViewHashes |->
                      IF h = "r" THEN dump(new_view) ELSE dump(OldView)]
    /\ hash_order \in {<<foo, bar>>, <<bar, foo>>}
    /\ remote = [url \in ViewDifferUrls |-> Upstream(url)]
    /\ mirror = [url \in ViewDifferUrls |->
                    IF url = ViewUrl THEN Repo({"p"}) ELSE Absent]
    /\ call = None
    /\ IdleText /\ IdleDiff /\ IdleLoop /\ IdleBatch
    /\ IdleScope /\ IdleWalk

NextViewDiffer ==
    \/ \E pair \in HashPairs, env \in Envs :
          GetCommitHashes(pair[1], pair[2], env)
    \/ \E pair \in HashPairs, env \in Envs :
          GetCommits(pair[1], pair[2], env)

SpecViewDiffer == InitViewDiffer /\ [][NextViewDiffer]_vars

-----------------------------------------------------------------------------
(* viewpoller.py: the loop that writes the locked view to versioned/<branch> *)

\* 'versioned/' + branch
versioned ==
    <<"v", "e", "r", "s", "i", "o", "n", "e", "d", "/">>

dest_branch(branch) == versioned \o branch

unversioned_view ==
    <<".", "u", "n", "v", "e", "r", "s", "i", "o", "n", "e", "d", "_",
      "v", "i", "e", "w">>

\* ViewFileEntry.has_revision
has_revision(entry) == entry.revision # HEAD

\* A commit that the poller makes: its parent (None for a root commit) and
\* the text of the viewfile in its tree.
OutputCommit(parent, tree) == [parent |-> parent, tree |-> tree]

\* The branch of a url as a key of heads.
Ref(url, branch) == <<url, branch>>

\* The commit a branch of the upstream points at, None when there is no
\* such branch.
HeadOf(refs, url, branch) ==
    IF Ref(url, branch) \in DOMAIN refs THEN refs[Ref(url, branch)] ELSE None

\* subprocess.call that forgets the exit status.
unchecked_call(ok) == ""

\* subprocess.check_call / check_output: CalledProcessError on a non-zero
\* exit status.
check_call(ok) == IF ok THEN "" ELSE "CalledProcessError"

\* A step of the round: its name, whether it did what it is for, and the
\* exception it raises ("" for none).
Step(cmd, ok, raised) == [cmd |-> cmd, ok |-> ok, raised |-> raised]

Checked(cmd, ok) == Step(cmd, ok, check_call(ok))

\* A round that goes on after a step has raised.
InSpiteOfRaised(plan) == plan

\* The steps up to and including the first that raises.
RECURSIVE UntilRaised(_)
UntilRaised(plan) ==
    IF plan = <<>> THEN <<>>
    ELSE IF Head(plan).raised # "" THEN <<Head(plan)>>
    ELSE <<Head(plan)>> \o UntilRaised(Tail(plan))

Done(ran, cmd) == \E k \in 1..Len(ran) : ran[k].cmd = cmd /\ ran[k].ok

\* gitutils.has_staged_changes: git diff-index --cached --quiet HEAD exits
\* non-zero when the index differs from the commit HEAD.
always_staged(head_tree, index_tree) == TRUE

has_staged_changes(head_tree, index_tree) == head_tree # index_tree

\* get_remote_head_reference(url, branch): the first word that git ls-remote
\* prints; with no such branch it prints nothing and [0] raises IndexError.
get_remote_head_reference(refs, url, branch, fail) ==
    IF fail = "ls-remote"
    THEN [raised |-> "CalledProcessError", value |-> <<>>]
    ELSE IF Ref(url, branch) \notin DOMAIN refs
    THEN [raised |-> "IndexError", value |-> <<>>]
    ELSE [raised |-> "", value |-> <<HeadOf(refs, url, branch)>>]

\* lock_revisions that leaves the entries as they are.
lock_nothing(entries, refs, fail) ==
    [raised |-> "", entries |-> entries, asked |-> 0]

\* lock_revisions(view): the entries in order, each one without a revision
\* given the head of its branch; the first failure ends it.
RECURSIVE lock_revisions(_, _, _)
lock_revisions(entries, refs, fail) ==
    IF entries = <<>> THEN [raised |-> "", entries |-> <<>>, asked |-> 0]
    ELSE LET entry == Head(entries)
             rest == lock_revisions(Tail(entries), refs, fail)
             ref == get_remote_head_reference(refs, entry.url, entry.branch,
                                              fail)
         IN IF has_revision(entry)
            THEN [rest EXCEPT !.entries = <<entry>> \o @]
            ELSE IF ref.raised # ""
            THEN [raised |-> ref.raised, entries |-> <<>>, asked |-> 1]
            ELSE [raised |-> rest.raised,
                  entries |-> <<[entry EXCEPT !.revision = ref.value]>>
                                  \o rest.entries,
                  asked |-> rest.asked + 1]

\* An entry for the view itself that follows its branch.
unversioned_entry_unpinned(url, branch, hash) ==
    ViewFileEntry(unversioned_view, url, GIT, branch, HEAD)

\* ViewFileEntry('.unversioned_view', self.url, 'GIT', branch, hash)
unversioned_entry(url, branch, hash) ==
    ViewFileEntry(unversioned_view, url, GIT, branch, <<hash>>)

\* A call of the listener with HEAD for both commits.
listener_call_of_head(url, dest, new) == <<url, dest, new, new>>

\* self.listener(self.url, dest_branch, get_hash(ref='HEAD^'),
\* get_hash(ref='HEAD')), HEAD being the commit just made.
listener_call(url, dest, new) == <<url, dest, new.parent, new>>

\* A loop body that does not wait.
no_sleep == <<>>

\* time.sleep(self.poll_interval), the last statement of the loop body
time_sleep == <<Step("sleep", TRUE, "")>>

\* The poller's clone of the view: the remote-tracking branches
\* origin/<branch> and origin/versioned/<branch> as of the last fetch or
\* push, and the local branch versioned/<branch> (None: no such branch).
Clone(origin_branch, origin_dest, local) ==
    [origin_branch |-> origin_branch, origin_dest |-> origin_dest,
     local |-> local]

\* One round of the while loop of ViewPoller.run, from the fetch to the
\* sleep, on the clone cl, refs being the branches of the upstream
\* repositories and files the viewfiles of the view's commits. fail names
\* the command that the environment makes exit non-zero ("none": none).
round(cl, refs, files, url, branch, listener, fail) ==
    LET dest == dest_branch(branch)
        fetched == [cl EXCEPT !.origin_branch = HeadOf(refs, url, branch),
                              !.origin_dest = HeadOf(refs, url, dest)]
        hash == fetched.origin_branch
        shown == fail # "show" /\ hash \in DOMAIN files
        v == IF shown THEN parse(files[hash]) ELSE ParseError
        locked == lock_revisions(v.entries, refs, fail)
        entry == unversioned_entry(url, branch, hash)
        entries == Append(locked.entries, entry)
        exists == fetched.origin_dest # None
        is_orphan == ~exists
        head == IF exists THEN fetched.origin_dest ELSE None
        text == dump(entries)
        change == is_orphan \/ has_staged_changes(head.tree, text)
        new == OutputCommit(head, text)
        plan ==
            <<Checked("fetch", fail # "fetch"),
              Checked("rev-parse", fail # "rev-parse"),
              Checked("show", shown),
              Step("parse", ~v.raised,
                   IF v.raised THEN "ParseError" ELSE "")>>
            \o [k \in 1..locked.asked |->
                   Step("ls-remote", k < locked.asked \/ locked.raised = "",
                        IF k < locked.asked THEN "" ELSE locked.raised)]
            \o <<Step("append", TRUE, ""), Step("show-ref", exists, "")>>
            \o (IF exists
                THEN <<Checked("checkout", fail # "checkout"),
                       Checked("reset", fail # "reset")>>
                ELSE <<Checked("checkout --orphan",
                               fail # "checkout" /\ cl.local = None)>>)
            \o <<Step("dump", TRUE, ""), Checked("add", fail # "add")>>
            \o (IF is_orphan THEN <<>>
                ELSE <<Step("diff-index", change, "")>>)
            \o (IF ~change THEN <<>>
                ELSE <<Checked("commit", fail # "commit"),
                       Checked("push",
                               fail # "push"
                                   /\ HeadOf(refs, url, dest) = head)>>
                     \o (IF ~listener THEN <<>>
                         ELSE <<Checked("rev-parse HEAD^",
                                        fail # "rev-parse HEAD^"
                                            /\ new.parent # None),
                                Checked("rev-parse HEAD",
                                        fail # "rev-parse HEAD"),
                                Step("listener", TRUE, "")>>))
            \o time_sleep
        ran == UntilRaised(plan)
    IN [ran |-> ran,
        raised |-> ran[Len(ran)].raised,
        clone |->
            Clone(IF Done(ran, "fetch") THEN fetched.origin_branch
                  ELSE cl.origin_branch,
                  IF Done(ran, "push") THEN new
                  ELSE IF Done(ran, "fetch") THEN fetched.origin_dest
                  ELSE cl.origin_dest,
                  IF Done(ran, "commit") THEN new
                  ELSE IF Done(ran, "reset") THEN head
                  ELSE IF Done(ran, "checkout") /\ cl.local = None THEN head
                  ELSE cl.local),
        pushed |-> IF Done(ran, "push") THEN <<new>> ELSE <<>>,
        calls |-> IF Done(ran, "listener")
                  THEN <<listener_call(url, dest, new)>> ELSE <<>>,
        hash |-> hash,
        text |-> text,
        is_orphan |-> is_orphan]

\* The view of each commit of the view's repository: p tracks foo's master
\* and pins bar, q tracks both, r pins foo and tracks bar.
PollerViews ==
    [h \in ViewHashes |->
        CASE h = "p" -> <<foo_entry, Pinned(bar_entry, "x")>>
          [] h = "q" -> <<foo_entry, bar_entry>>
          [] h = "r" -> <<Pinned(foo_entry, "b"), bar_entry>>]

\* The branches the poller reads, each with the commits it moves through.
TipsOf(ref) ==
    IF ref = Ref(ViewUrl, master) THEN <<"p", "q", "r">>
    ELSE IF ref = Ref(FooUrl, master) THEN <<"a", "b", "c">>
    ELSE <<"x", "y">>

Tracked == {Ref(ViewUrl, master), Ref(FooUrl, master), Ref(BarUrl, master)}

DestRef == Ref(ViewUrl, dest_branch(master))

\* The branches whose heads decide what a round writes: the view's own and
\* those of the entries of its current view that have no revision.
Followed(refs) ==
    LET entries == PollerViews[refs[Ref(ViewUrl, master)]] IN
    {Ref(ViewUrl, master)}
        \cup {Ref(entries[k].url, entries[k].branch) :
                 k \in {i \in 1..Len(entries) : entries[i].revision = HEAD}}

\* Whether a followed branch points elsewhere than when the head of the
\* output branch was pushed (made_from: the heads at that moment).
Moved(refs, made_from) ==
    \/ refs[Ref(ViewUrl, master)] # made_from[Ref(ViewUrl, master)]
    \/ \E ref \in Followed(refs) : refs[ref] # made_from[ref]

\* What is kept of a round for the next one to look back on.
Summary(last) ==
    IF last = None THEN None
    ELSE [quiet |-> last.existed /\ ~last.moved,
          raised |-> last.raised,
          pushed |-> Len(last.pushed),
          calls |-> Len(last.calls)]

\* A push that also moves the view's own branch.
AfterPushOfAll(refs, pushed) ==
    IF pushed = <<>> THEN refs
    ELSE [ref \in DOMAIN refs \cup {DestRef} |->
             IF ref = DestRef THEN pushed[1]
             ELSE IF ref = Ref(ViewUrl, master) THEN "r"
             ELSE refs[ref]]

\* The branches upstream after git push -q origin versioned/<branch>: the
\* output branch has the pushed commit, the others are as they were.
AfterPush(refs, pushed) ==
    IF pushed = <<>> THEN refs
    ELSE [ref \in DOMAIN refs \cup {DestRef} |->
             IF ref = DestRef THEN pushed[1] ELSE refs[ref]]

\* ViewPoller.run up to the loop: _ensure_view clones the view when there is
\* no clone yet. run is started at first and again after it has died.
Start(fail) ==
    /\ loop.pc \in {"stopped", "dead"}
    /\ IF clone # None THEN clone' = clone /\ loop' = [loop EXCEPT
                                 !.pc = "looping", !.last = None]
       ELSE IF fail = "clone"
       THEN clone' = clone /\ loop' = [loop EXCEPT !.pc = "dead",
                                                  !.last = None]
       ELSE /\ clone' = Clone(heads[Ref(ViewUrl, master)],
                              HeadOf(heads, ViewUrl, dest_branch(master)),
                              None)
            /\ loop' = [loop EXCEPT !.pc = "looping", !.last = None]
    /\ UNCHANGED <<heads, notified, trees, hash_order, textVars, diffVars,
                   cacheVars, batchVars, scopeVars, walkVars>>

\* One round of the while loop of ViewPoller.run.
Iterate(fail) ==
    /\ loop.pc = "looping"
    /\ LET r == round(clone, heads, trees, ViewUrl, master, loop.listener,
                      fail)
           existed == DestRef \in DOMAIN heads
       IN /\ clone' = r.clone
          /\ heads' = AfterPush(heads, r.pushed)
          /\ notified' = notified \o r.calls
          /\ loop' = [pc |-> IF r.raised = "" THEN "looping" ELSE "dead",
                      listener |-> loop.listener,
                      made_from |-> IF r.pushed = <<>> THEN loop.made_from
                                    ELSE [ref \in Tracked |-> heads[ref]],
                      last |-> [ran |-> r.ran,
                                raised |-> r.raised,
                                is_orphan |-> r.is_orphan,
                                existed |-> existed,
                                moved |-> existed
                                          /\ Moved(heads, loop.made_from),
                                before |-> HeadOf(heads, ViewUrl,
                                                  dest_branch(master)),
                                pushed |-> r.pushed,
                                calls |-> r.calls,
                                prev |-> Summary(loop.last)]]
    /\ UNCHANGED <<trees, hash_order, textVars, diffVars, cacheVars,
                   batchVars, scopeVars, walkVars>>

\* How many pushes the branches that the poller reads have had.
MovesMade(refs) ==
    LET at(ref) == CHOOSE k \in 1..Len(TipsOf(ref)) : TipsOf(ref)[k] = refs[ref]
    IN (at(Ref(ViewUrl, master)) - 1) + (at(Ref(FooUrl, master)) - 1)
           + (at(Ref(BarUrl, master)) - 1)

\* Somebody pushes to a branch that the poller reads.
MoveBranch(ref) ==
    /\ MovesMade(heads) < MaxMoves
    /\ \E k \in 1..(Len(TipsOf(ref)) - 1) :
          /\ heads[ref] = TipsOf(ref)[k]
          /\ heads' = [heads EXCEPT ![ref] = TipsOf(ref)[k + 1]]
    /\ UNCHANGED <<clone, notified, loop, trees, hash_order, textVars,
                   diffVars, cacheVars, batchVars, scopeVars, walkVars>>

\* The commands of a round that the environment can make fail.
PollerFailures ==
    {"none", "fetch", "rev-parse", "show", "ls-remote", "checkout", "reset",
     "add", "commit", "push"}

\* What the last commit of the view's branch can hold: its view, a line
\* that is no entry, or an entry on a branch that its repository lacks.
LastViewfiles ==
    {dump(PollerViews["r"]), <<"f", "o", "o", "\n">>,
     dump(<<foo_dev_entry, bar_entry>>)}

InitPoller ==
    /\ \E last \in LastViewfiles :
          trees = [h \in ViewHashes |->
                      IF h = "r" THEN last ELSE dump(PollerViews[h])]
    /\ hash_order = <<>>
    /\ heads = [ref \in Tracked |-> TipsOf(ref)[1]]
    /\ clone = None
    /\ notified = <<>>
    /\ \E listener \in BOOLEAN :
          loop = [pc |-> "stopped", listener |-> listener,
                  made_from |-> [ref \in Tracked |-> TipsOf(ref)[1]],
                  last |-> None]
    /\ IdleText /\ IdleDiff /\ IdleCache /\ IdleBatch
    /\ IdleScope /\ IdleWalk

NextPoller ==
    \/ \E fail \in {"none", "clone"} : Start(fail)
    \/ \E fail \in PollerFailures : Iterate(fail)
    \/ \E ref \in Tracked : MoveBranch(ref)

SpecPoller == InitPoller /\ [][NextPoller]_vars

-----------------------------------------------------------------------------
(* Updating the repositories of a view: view.py *)

MaxEdits == 1

\* A repository in the view's directory: the url of its remote origin, the
\* branch checked out (HEAD when detached), the commit checked out, whether
\* that commit differs from origin/<branch>, the state of index and working
\* tree, and whether git commands fail in it.
NoRepo == [there |-> FALSE]

WorkRepo(url, branch, head, ahead, dirty, broken) ==
    [there |-> TRUE, origin |-> url, branch |-> branch, head |-> head,
     ahead |-> ahead, dirty |-> dirty, broken |-> broken]

\* The commit a branch of an upstream repository points at.
Tip(url, branch) == IF url = FooUrl THEN <<"c">> ELSE <<"y">>

\* A status that does not look at the index and the working tree.
get_repository_status_of_head(repo, viewfile_entry) ==
    IF repo.broken THEN "failed to get status"
    ELSE IF repo.origin # viewfile_entry.url THEN "has changed origin"
    ELSE IF has_revision(viewfile_entry)
            /\ repo.head # viewfile_entry.revision
    THEN "has changed revision"
    ELSE IF ~has_revision(viewfile_entry)
            /\ repo.branch # viewfile_entry.branch
    THEN "has changed branch"
    ELSE IF ~has_revision(viewfile_entry) /\ repo.ahead
    THEN "has unpushed changes"
    ELSE "has no changes"

\* get_repository_status(path, viewfile_entry): the report of the status.
get_repository_status(repo, viewfile_entry) ==
    IF repo.broken THEN "failed to get status"
    ELSE IF repo.origin # viewfile_entry.url THEN "has changed origin"
    ELSE IF has_revision(viewfile_entry)
            /\ repo.head # viewfile_entry.revision
    THEN "has changed revision"
    ELSE IF ~has_revision(viewfile_entry)
            /\ repo.branch # viewfile_entry.branch
    THEN "has changed branch"
    ELSE IF ~has_revision(viewfile_entry) /\ repo.ahead
    THEN "has unpushed changes"
    ELSE IF repo.dirty = "staged" THEN "has staged changes"
    ELSE IF repo.dirty = "unstaged" THEN "has unstaged changes"
    ELSE "has no changes"

\* The repository as update_repo leaves it when every command succeeds.
CheckedOut(entry) ==
    IF has_revision(entry)
    THEN WorkRepo(entry.url, HEAD, entry.revision, FALSE, "clean", FALSE)
    ELSE WorkRepo(entry.url, entry.branch, Tip(entry.url, entry.branch),
                  FALSE, "clean", FALSE)

\* What a call of update_repo does: the exception raised ("" for none), its
\* message, the repository afterwards and the git commands run in it, the
\* failed one last.
UpdateResult(raised, msg, repo, cmds) ==
    [raised |-> raised, msg |-> msg, repo |-> repo, cmds |-> cmds]

\* The commands of update_repo in a repository that exists, after
\* git remote set-url.
PullCommands(entry, needs_fetch) ==
    IF has_revision(entry)
    THEN (IF needs_fetch THEN <<"fetch">> ELSE <<>>) \o <<"checkout">>
    ELSE <<"fetch", "checkout", "reset">>

\* update_repo(viewdir, viewfile_entry, old_viewfile_entry, force) on the
\* repository repo of the entry's directory; failing is the directory whose
\* upstream cannot be reached ("" for none).
update_repo(viewfile_entry, old_viewfile_entry, force, repo, failing) ==
    LET entry == viewfile_entry
        unreachable == failing = entry.dir
        status == get_repository_status(repo, old_viewfile_entry)
        needs_fetch == ~has_revision(entry) \/ repo.head # entry.revision
    IN IF repo.there
       THEN IF force /\ repo.broken
            THEN UpdateResult("CalledProcessError", "", repo, <<>>)
            ELSE IF force /\ repo.origin # viewfile_entry.url
            THEN UpdateResult("UpdateError", "has changed origin", repo,
                              <<>>)
            ELSE IF ~force /\ status # "has no changes"
            THEN UpdateResult("UpdateError", status, repo, <<>>)
            ELSE IF needs_fetch /\ unreachable
            THEN UpdateResult("CalledProcessError", "",
                              [repo EXCEPT !.origin = entry.url],
                              <<"set-url", "fetch">>)
            ELSE UpdateResult("", "", CheckedOut(entry),
                              <<"set-url">>
                                  \o PullCommands(entry, needs_fetch)
                                  \o <<"submodule">>)
       ELSE IF unreachable
            THEN UpdateResult("CalledProcessError", "", repo, <<"clone">>)
            ELSE UpdateResult("", "", CheckedOut(entry),
                              <<"clone", "checkout", "submodule">>)

\* old_entries of update_repos: the entries of the view by directory,
\* replaced by those of old_view.
OldEntries(entries, old_view) ==
    [d \in Dirs(entries) \cup Dirs(old_view) |->
        IF d \in Dirs(old_view) THEN DictByDir(old_view)[d]
        ELSE DictByDir(entries)[d]]

\* A loop body without the try.
except_nothing(raised) == FALSE

\* except UpdateError as error
except_UpdateError(raised) == raised = "UpdateError"

\* The for loop of update_repos over the entries: the directories for
\* which update_repo was called, the errors appended, the exception that
\* left the loop ("" for none) and the repositories afterwards.
RECURSIVE update_each(_, _, _, _, _)
update_each(entries, old_entries, force, repos, failing) ==
    IF entries = <<>>
    THEN [attempted |-> <<>>, errors |-> <<>>, raised |-> "",
          repos |-> repos, cmds |-> <<>>]
    ELSE LET entry == Head(entries)
             r == update_repo(entry, old_entries[entry.dir], force,
                              repos[entry.dir], failing)
             after == [repos EXCEPT ![entry.dir] = r.repo]
             rest == update_each(Tail(entries), old_entries, force, after,
                                 failing)
         IN IF r.raised # "" /\ ~except_UpdateError(r.raised)
            THEN [attempted |-> <<entry.dir>>, errors |-> <<>>,
                  raised |-> r.raised, repos |-> after,
                  cmds |-> <<r.cmds>>]
            ELSE [attempted |-> <<entry.dir>> \o rest.attempted,
                  errors |-> (IF r.raised # ""
                              THEN <<<<entry.dir, r.msg>>>> ELSE <<>>)
                                 \o rest.errors,
                  raised |-> rest.raised,
                  repos |-> rest.repos,
                  cmds |-> <<r.cmds>> \o rest.cmds]

\* update_repos(viewdir, old_view, force): the viewfile of the directory is
\* read and parsed, every entry is updated, and the errors are printed when
\* the loop has ended. An old_view of None is the empty sequence here: both
\* add nothing to old_entries.
update_repos(text, old_view, force, repos, failing) ==
    LET v == parse(text)
        each == update_each(v.entries, OldEntries(v.entries, old_view),
                            force, repos, failing)
    IN IF v.raised
       THEN [entries |-> <<>>, attempted |-> <<>>, errors |-> <<>>,
             raised |-> "ParseError", reported |-> <<>>, repos |-> repos,
             cmds |-> <<>>]
       ELSE [entries |-> v.entries, attempted |-> each.attempted,
             errors |-> each.errors, raised |-> each.raised,
             reported |-> IF each.raised = "" THEN each.errors ELSE <<>>,
             repos |-> each.repos, cmds |-> each.cmds]

\* The viewfiles that the view's directory can hold.
UpdateViews ==
    {<<foo_entry, Pinned(bar_entry, "x")>>,
     <<Pinned(bar_entry, "y"), foo_entry>>,
     <<foo_dev_entry, bar_moved_entry>>}

\* The old_view of a call: none (view update), or the viewfile before a
\* pull or checkout.
OldViews == {<<>>, <<foo_entry, Pinned(bar_entry, "x")>>}

UpdateDirs == {foo, bar}

\* view update, view pull and view checkout [-f]: update_repos on the
\* viewfile of the directory.
UpdateRepos(entries, old_view, force, failing) ==
    /\ work.edits <= MaxEdits
    /\ LET r == update_repos(dump(entries), old_view, force, work.repos,
                             failing)
       IN /\ work' = [work EXCEPT !.repos = r.repos]
          /\ batch' = [entries |-> r.entries, old_view |-> old_view,
                       force |-> force, start |-> work.repos,
                       attempted |-> r.attempted, errors |-> r.errors,
                       raised |-> r.raised, reported |-> r.reported,
                       cmds |-> r.cmds, finish |-> r.repos]
    /\ UNCHANGED <<textVars, diffVars, cacheVars, worldVars, loopVars,
                   scopeVars, walkVars>>

\* What the user does to a repository between two updates.
Edited(repo, kind) ==
    CASE kind = "stage" -> [repo EXCEPT !.dirty = "staged"]
      [] kind = "edit" -> [repo EXCEPT !.dirty = "unstaged"]
      [] kind = "commit" -> [repo EXCEPT !.head = <<"l">>, !.ahead = TRUE]
      [] kind = "set-url" -> [repo EXCEPT !.origin = BarForkUrl]
      [] kind = "break" -> [repo EXCEPT !.broken = TRUE]

EditKinds == {"stage", "edit", "commit", "set-url", "break"}

LocalEdit(d, kind) ==
    /\ work.edits < MaxEdits
    /\ work.repos[d].there
    /\ work' = [repos |-> [work.repos EXCEPT ![d] = Edited(@, kind)],
                edits |-> work.edits + 1]
    /\ UNCHANGED <<batch, textVars, diffVars, cacheVars, worldVars,
                   loopVars, scopeVars, walkVars>>

InitUpdate ==
    /\ work = [repos |-> [d \in UpdateDirs |-> NoRepo], edits |-> 0]
    /\ batch = None
    /\ IdleText /\ IdleDiff /\ IdleCache /\ IdleWorld /\ IdleLoop
    /\ IdleScope /\ IdleWalk

NextUpdate ==
    \/ \E entries \in UpdateViews, old_view \in OldViews,
          force \in BOOLEAN, failing \in {<<>>, bar} :
          UpdateRepos(entries, old_view, force, failing)
    \/ \E d \in UpdateDirs, kind \in EditKinds : LocalEdit(d, kind)

SpecUpdate == InitUpdate /\ [][NextUpdate]_vars

-----------------------------------------------------------------------------
(* The cache directory of a ViewDiffer and its with block: diff.py *)

\* A path is the sequence of its names. mkdtemp gives out one of the names
\* below; the other directory is one that the caller names.
TempNames == <<"tmpA", "tmpB", "tmpC", "tmpD">>

TempDirs == {<<TempNames[i]>> : i \in 1..MaxTemp}

NamedDir == <<"cache">>

\* The names of the mirrors that _ensure_repo clones into the cache.
MirrorNames == {"foo.git", "bar.git"}

\* Whether path is dir or lies below it.
Under(dir, path) ==
    /\ Len(path) >= Len(dir)
    /\ SubSeq(path, 1, Len(dir)) = dir

\* shutil.rmtree(path, ignore_errors=True) by the owner of the tree.
rmtree(path, tree) == {p \in tree : ~Under(path, p)}

\* ViewDiffer.__init__(cache_dir), the empty path being None; temp is the
\* directory that tempfile.mkdtemp() makes.
__init__(cache_dir, temp, tree) ==
    IF cache_dir = <<>>
    THEN [self |-> [_cache_dir |-> temp, _remove_cache |-> TRUE],
          tree |-> tree \cup {temp}]
    ELSE [self |-> [_cache_dir |-> cache_dir, _remove_cache |-> FALSE],
          tree |-> tree]

\* An __exit__ that cleans up only when the block ended without exception.
exit_without_exception(self, exc_type, tree) ==
    IF self._remove_cache /\ exc_type = ""
    THEN rmtree(self._cache_dir, tree) ELSE tree

\* ViewDiffer.__exit__(exc_type, exc_value, traceback): the tree afterwards.
\* It returns None, so that an exception of the block is raised again.
__exit__(self, exc_type, tree) ==
    IF self._remove_cache THEN rmtree(self._cache_dir, tree) ELSE tree

\* differ = ViewDiffer(cache_dir); an object made before is dropped.
Construct(cache_dir, temp) ==
    /\ differ # None => differ.pc # "entered"
    /\ cache_dir = <<>> => temp \notin paths
    /\ LET made == __init__(cache_dir, temp, paths)
       IN /\ paths' = made.tree
          /\ differ' = [self |-> made.self, pc |-> "made", exc |-> "",
                        held |-> {}]
    /\ UNCHANGED <<textVars, diffVars, cacheVars, worldVars, loopVars,
                   batchVars, walkVars>>

\* with differ: __enter__ returns self.
Enter ==
    /\ differ # None
    /\ differ.pc # "entered"
    /\ differ' = [differ EXCEPT !.pc = "entered", !.exc = "", !.held = {}]
    /\ UNCHANGED <<paths, textVars, diffVars, cacheVars, worldVars,
                   loopVars, batchVars, walkVars>>

\* Inside the block _ensure_repo clones a mirror into the cache; git clone
\* makes the directories above it.
CloneMirror(name) ==
    /\ differ # None
    /\ differ.pc = "entered"
    /\ paths' = paths \cup {differ.self._cache_dir,
                            differ.self._cache_dir \o <<name>>}
    /\ UNCHANGED <<differ, textVars, diffVars, cacheVars, worldVars,
                   loopVars, batchVars, walkVars>>

\* The block ends, normally or by an exception: __exit__ is called.
Exit(exc_type) ==
    /\ differ # None
    /\ differ.pc = "entered"
    /\ paths' = __exit__(differ.self, exc_type, paths)
    /\ differ' = [differ EXCEPT
                     !.pc = "exited", !.exc = exc_type,
                     !.held = {p \in paths : Under(differ.self._cache_dir, p)}]
    /\ UNCHANGED <<textVars, diffVars, cacheVars, worldVars, loopVars,
                   batchVars, walkVars>>

InitScope ==
    /\ paths \in {{}, {NamedDir}}
    /\ differ = None
    /\ IdleText /\ IdleDiff /\ IdleCache /\ IdleWorld /\ IdleLoop
    /\ IdleBatch /\ IdleWalk

NextScope ==
    \/ \E cache_dir \in {<<>>, NamedDir}, temp \in TempDirs :
          Construct(cache_dir, temp)
    \/ Enter
    \/ \E name \in MirrorNames : CloneMirror(name)
    \/ \E exc_type \in {"", "CalledProcessError"} : Exit(exc_type)

SpecScope == InitScope /\ [][NextScope]_vars

-----------------------------------------------------------------------------
(* Finding the view that encloses a directory: view.py *)

\* A path is the sequence of its names below the root, the root being the
\* empty one. The tree has every directory of names a and b to the depth
\* MaxDepth, and at the root a symbolic link l to the directory a/b.
TreeNames == {"a", "b"}

TreeDirs == BoundedSeq(TreeNames, MaxDepth)

LinkPath == <<"l">>

LinkTarget == <<"a", "b">>

\* os.path.join(path, name)
join(path, name) == path \o <<name>>

\* os.path.realpath(path): the names are followed from the root; "." stays,
\* ".." goes up and stays at the root, a link goes to its target.
RECURSIVE Resolve(_, _)
Resolve(at, rest) ==
    IF rest = <<>> THEN at
    ELSE LET name == Head(rest)
             next == IF name = "." THEN at
                     ELSE IF name = ".."
                     THEN SubSeq(at, 1, IF at = <<>> THEN 0 ELSE Len(at) - 1)
                     ELSE IF join(at, name) = LinkPath THEN LinkTarget
                     ELSE join(at, name)
         IN Resolve(next, Tail(rest))

realpath(path) == Resolve(<<>>, path)

\* A test for anything named view.txt.
exists_viewfile(path, views, decoys) == path \in views \cup decoys

\* is_view_directory(path): os.path.isfile(path/view.txt). views are the
\* directories in which view.txt is a file, decoys those in which it is a
\* directory.
is_view_directory(path, views, decoys) == path \in views

\* One next() of the generator walk_up(top) after the directories it has
\* yielded: the directory it yields, or that it returns.
walk_up(top, yielded) ==
    IF yielded = <<>>
    THEN [stop |-> FALSE, dir_ |-> realpath(top)]
    ELSE LET current == yielded[Len(yielded)]
             parent == realpath(join(current, ".."))
         IN IF parent = current
            THEN [stop |-> TRUE, dir_ |-> current]
            ELSE [stop |-> FALSE, dir_ |-> parent]

\* main on the NotInViewError of find_enclosing_view_checked: the message
\* on stderr and the status returned.
main_NotInViewError ==
    [raised |-> "NotInViewError",
     stderr |-> "error: not a view (or a subdirectory of a view)",
     status |-> Some(1)]

\* The directories from which the walk is started: a command in any
\* directory of the tree, and paths through the link and through "..".
Tops ==
    {join(d, ".") : d \in TreeDirs}
        \cup {LinkPath, join(LinkPath, ".."), <<"a", "..", "b">>}

\* A reader of walk_up(top) begins: list(walk_up(top)), or a command of
\* main that calls find_enclosing_view_checked.
StartWalk(top, views, decoys, reader) ==
    /\ walk = None
    /\ walk' = [top |-> top, views |-> views, decoys |-> decoys,
                reader |-> reader, pc |-> "walking", yielded |-> <<>>,
                found |-> None, raised |-> "", stderr |-> "",
                status |-> None]
    /\ UNCHANGED <<textVars, diffVars, cacheVars, worldVars, loopVars,
                   batchVars, scopeVars>>

\* The reader asks the generator for its next directory. In
\* find_enclosing_view the first directory that is a view is returned; when
\* the generator returns, find_enclosing_view returns None,
\* find_enclosing_view_checked raises NotInViewError, and main returns 1.
Resume ==
    /\ walk # None
    /\ walk.pc = "walking"
    /\ LET got == walk_up(walk.top, walk.yielded)
           yielded == IF got.stop THEN walk.yielded
                      ELSE Append(walk.yielded, got.dir_)
       IN walk' =
            IF got.stop
            THEN IF walk.reader = "command"
                 THEN [walk EXCEPT !.pc = "done",
                          !.raised = main_NotInViewError.raised,
                          !.stderr = main_NotInViewError.stderr,
                          !.status = main_NotInViewError.status]
                 ELSE [walk EXCEPT !.pc = "done"]
            ELSE IF walk.reader = "command"
                    /\ is_view_directory(got.dir_, walk.views, walk.decoys)
            THEN [walk EXCEPT !.pc = "done", !.yielded = yielded,
                     !.found = Some(got.dir_)]
            ELSE [walk EXCEPT !.yielded = yielded]
    /\ UNCHANGED <<textVars, diffVars, cacheVars, worldVars, loopVars,
                   batchVars, scopeVars>>

\* The sets of at most n of the directories S.
AtMost(S, n) == {T \in SUBSET S : Cardinality(T) <= n}

InitWalk ==
    /\ walk = None
    /\ IdleText /\ IdleDiff /\ IdleCache /\ IdleWorld /\ IdleLoop
    /\ IdleBatch /\ IdleScope

NextWalk ==
    \/ /\ walk = None
       /\ \E top \in Tops, views \in AtMost(TreeDirs, MaxViews),
             decoys \in AtMost({<<>>, <<"a">>}, 1),
             reader \in {"list", "command"} :
             StartWalk(top, views, decoys, reader)
    \/ Resume

\* A generator that is read from is run until it yields or returns.
SpecWalk == InitWalk /\ [][NextWalk]_vars /\ WF_vars(Resume)







-----------------------------------------------------------------------------
(* Properties of the viewfile library *)

NoDuplicateDirs(entries) ==
    \A i, j \in 1..Len(entries) : entries[i].dir = entries[j].dir => i = j

IsToken(s) == s # <<>> /\ \A i \in 1..Len(s) : s[i] \notin Whitespace

IsTokenEntry(e) ==
    /\ \A k \in Fields : IsToken(e[k])
    /\ Head(e.dir) # "#"

\* C1, as claimed: for every ViewFile without duplicate directories, whatever
\* its five string fields hold, parsing its dump succeeds and dumping the
\* parsed ViewFile gives the same text again.
C1_RoundTripForEveryFieldValue ==
    (origin.kind = "dump" /\ parsed # None
        /\ NoDuplicateDirs(origin.entries))
    => (~parsed.raised /\ dump(parsed.entries) = dump(origin.entries))

\* The round trip does hold when every field is a token (not empty, no
\* white space) and no directory starts with '#', duplicates or not.
RoundTripOfTokenEntries ==
    (origin.kind = "dump" /\ parsed # None
        /\ \A i \in 1..Len(origin.entries) : IsTokenEntry(origin.entries[i]))
    => (~parsed.raised /\ parsed.entries = origin.entries
        /\ dump(parsed.entries) = dump(origin.entries))

\* The entry lines of a hand-written file, by what their author wrote.
Significant(ls) == SelectSeq(ls, LAMBDA l : l.kind = "entry")

HasWrongFieldCount(ls) ==
    \E i \in 1..Len(ls) : ls[i].kind = "entry" /\ Len(ls[i].fields) # 5

EntryOfFields(fields) ==
    ViewFileEntry(fields[1], fields[2], fields[3], fields[4], fields[5])

\* C2: parse raises ParseError, and returns no ViewFile, whenever some
\* significant line of the text (not blank, not a '#' comment) has a number
\* of fields other than 5, wherever that line stands.
C2_ParseRejectsWrongFieldCount ==
    (origin.kind = "text" /\ parsed # None
        /\ HasWrongFieldCount(origin.lines))
    => parsed = ParseError

\* A file whose third line has six fields, after a good entry and a
\* comment, was parsed and rejected.
C2_Witness ==
    /\ origin.kind = "text"
    /\ parsed # None
    /\ parsed.raised
    /\ Len(origin.lines) = 3
    /\ origin.lines[1].kind = "entry" /\ Len(origin.lines[1].fields) = 5
    /\ origin.lines[2].kind = "comment"
    /\ origin.lines[3].kind = "entry" /\ Len(origin.lines[3].fields) = 6

\* C3: when every significant line has exactly 5 fields, parse returns one
\* entry per significant line, in the order of the lines, the five tokens
\* being directory, url, vcs, branch and revision; blank and comment lines
\* add no entry and raise no error.
C3_ParseReturnsTheEntryLines ==
    (origin.kind = "text" /\ parsed # None
        /\ ~HasWrongFieldCount(origin.lines))
    => LET sig == Significant(origin.lines) IN
       /\ ~parsed.raised
       /\ Len(parsed.entries) = Len(sig)
       /\ \A i \in 1..Len(sig) :
             parsed.entries[i] = EntryOfFields(sig[i].fields)

\* An indented comment between two different entry lines was skipped and
\* the two entries returned.
C3_Witness ==
    /\ origin.kind = "text"
    /\ parsed # None
    /\ ~parsed.raised
    /\ Len(origin.lines) = 3
    /\ origin.lines[1].kind = "entry"
    /\ origin.lines[2].kind = "comment" /\ Head(origin.lines[2].text) = " "
    /\ origin.lines[3].kind = "entry"
    /\ Len(parsed.entries) = 2
    /\ parsed.entries[1] # parsed.entries[2]

\* The entry a viewfile resolves a directory to: its last entry with that
\* directory, or None.
Resolved(entries, d) ==
    IF \E i \in 1..Len(entries) : entries[i].dir = d
    THEN LET last == CHOOSE i \in 1..Len(entries) :
                        /\ entries[i].dir = d
                        /\ \A j \in 1..Len(entries) :
                              entries[j].dir = d => j <= i
         IN entries[last]
    ELSE None

DirNames == {foo, bar}

\* C4: diff(from, to) has the key d iff the entries from and to resolve d to
\* are unequal, and maps d to the pair (old entry or None, new entry or
\* None).
C4_DiffIsTheChangedDirs ==
    (res # None /\ res.op = "diff")
    => /\ DOMAIN res.out \subseteq DirNames
       /\ \A d \in DirNames :
             LET old == Resolved(res.a, d)
                 new == Resolved(res.b, d)
             IN /\ (d \in DOMAIN res.out) <=> (old # new)
                /\ (d \in DOMAIN res.out) => res.out[d] = <<old, new>>

\* diff reported one directory as changed (both entries present) and
\* another as removed.
C4_Witness ==
    /\ res # None
    /\ res.op = "diff"
    /\ DOMAIN res.out = {foo, bar}
    /\ res.out[foo][1] # None /\ res.out[foo][2] # None
    /\ res.out[bar][1] # None /\ res.out[bar][2] = None

\* C5: diff(m, m) is empty for every ViewFile m, also one with duplicate
\* directories.
C5_DiffIsReflexive ==
    (res # None /\ res.op = "diff" /\ res.a = res.b)
    => DOMAIN res.out = {}

\* diff of a viewfile that lists one directory twice, with different
\* entries, against itself.
C5_Witness ==
    /\ res # None
    /\ res.op = "diff"
    /\ res.a = res.b
    /\ Len(res.a) = 2
    /\ res.a[1].dir = res.a[2].dir
    /\ res.a[1] # res.a[2]
    /\ DOMAIN res.out = {}

\* C6: diff(a, b) and diff(b, a) have the same keys, and diff(b, a)[d] is
\* diff(a, b)[d] with old and new swapped.
C6_DiffSwapsUnderExchange ==
    (res # None /\ res.op = "diff")
    => LET back == diff(res.b, res.a) IN
       /\ DOMAIN back = DOMAIN res.out
       /\ \A d \in DOMAIN res.out :
             back[d] = <<res.out[d][2], res.out[d][1]>>

\* diff reported an added directory and a changed one.
C6_Witness ==
    /\ res # None
    /\ res.op = "diff"
    /\ res.a # res.b
    /\ DOMAIN res.out = {foo, bar}
    /\ res.out[bar][1] = None
    /\ res.out[foo][1] # None /\ res.out[foo][2] # None

SameEntrySet(a, b) ==
    {a[i] : i \in 1..Len(a)} = {b[i] : i \in 1..Len(b)}

\* C7, as claimed: two ViewFiles compare equal iff their entries are the same
\* set, whatever the order they are listed in.
C7_EqualityIgnoresOrder ==
    (res # None /\ res.op = "eq") => (res.out <=> SameEntrySet(res.a, res.b))

\* C7, amended: two ViewFiles compare equal iff they list equal entries in
\* the same order; ViewFiles that differ in any entry compare unequal, and
\* so do ViewFiles that list the same entries in a different order.
C7_EqualityIsSequenceEquality ==
    (res # None /\ res.op = "eq")
    => /\ res.out <=> (res.a = res.b)
       /\ ~SameEntrySet(res.a, res.b) => ~res.out

\* Two ViewFiles with the same two entries in opposite orders were compared
\* and found unequal.
C7_Witness ==
    /\ res # None
    /\ res.op = "eq"
    /\ Len(res.a) = 2
    /\ res.a[1] # res.a[2]
    /\ res.b = <<res.a[2], res.a[1]>>
    /\ res.out = FALSE

-----------------------------------------------------------------------------
(* Properties of the git probes and of the repository cache *)

\* C8, as claimed: whenever _ensure_repo returns a path, the mirror at that
\* path holds every required commit id (a clone that lacks one makes the
\* call fail instead), and git log is never run by _get_repo_commits
\* against a mirror that lacks one of its two ids.
C8_EnsureGuaranteesRequiredCommits ==
    /\ (call # None /\ call.op = "_ensure_repo" /\ call.result = "returned")
           => HasAll(mirror[call.url], call.req)
    /\ (call # None /\ call.op = "_get_repo_commits" /\ call.queried)
           => HasAll(mirror[call.url], call.req)

\* C9, as claimed: two calls of _ensure_repo in a row with the same url and
\* hashes issue at most one fetch or clone between them, and the second
\* never clones. Stated here for the calls the claim is kindest to: both
\* return, and the first leaves every required id in the mirror.
C9_AtMostOneNetworkOperation ==
    (call # None /\ call.op = "_ensure_repo" /\ call.prev # None
        /\ call.prev.result = "returned" /\ call.prev.satisfied
        /\ call.result = "returned")
    => /\ NetworkOps(call.prev.ops) + NetworkOps(call.ops) <= 1
       /\ \A i \in 1..Len(call.ops) : call.ops[i] # "clone"

\* C9, amended: when a call of _ensure_repo has returned with every required
\* id in the mirror, a second call in a row with the same url and hashes
\* runs no fetch, discards nothing, runs no clone, and returns. (One call may
\* itself run a fetch and then a clone, and a call after one that left a
\* required id missing fetches and clones again.)
C9_SecondCallAfterSatisfiedIsLocal ==
    (call # None /\ call.op = "_ensure_repo" /\ call.prev # None
        /\ call.prev.result = "returned" /\ call.prev.satisfied)
    => (call.ops = <<>> /\ call.result = "returned")

\* A call that fetched and then cloned to get its two commits was repeated,
\* and the repetition touched neither the network nor the mirror.
C9_Witness ==
    /\ call # None
    /\ call.op = "_ensure_repo"
    /\ call.prev # None
    /\ call.prev.ops = <<"fetch", "rmtree", "clone">>
    /\ call.prev.result = "returned"
    /\ call.prev.satisfied
    /\ call.req = <<"c1", "c2">>
    /\ call.ops = <<>>

\* C10: the probe raises nothing and answers True or False: commit_exists is
\* False when git cat-file exits non-zero (no such object, no repository)
\* and when the object is not a commit, True only for a commit; and
\* commits_exist is True iff commit_exists is True for every id of the list
\* (True for the empty list).
C10_ProbeIsTwoValued ==
    (call # None /\ call.op = "commits_exist")
    => /\ call.result = "returned"
       /\ call.value \in BOOLEAN
       /\ call.value <=>
             \A i \in 1..Len(call.req) :
                 /\ mirror[call.url].git
                 /\ call.req[i] \in mirror[call.url].objs
                 /\ Kind(call.req[i]) = "commit"
       /\ call.value <=>
             \A i \in 1..Len(call.req) :
                 commit_exists(mirror[call.url], call.req[i]).value

\* A commit and a tag, both in the mirror, were probed: the answer is False.
C10_Witness ==
    /\ call # None
    /\ call.op = "commits_exist"
    /\ call.req = <<"c1", "t1">>
    /\ {"c1", "t1"} \subseteq mirror[call.url].objs
    /\ call.result = "returned"
    /\ call.value = FALSE

-----------------------------------------------------------------------------
(* The steps of the repository cache *)

EnsureCalled == call # None /\ call.op \in {"_ensure_repo", "_get_repo_commits"}

Has(ops, op) == \E i \in 1..Len(ops) : ops[i] = op

\* C17: when the mirror exists and already holds every required commit id,
\* _ensure_repo runs no fetch, no rmtree and no clone, returns, and leaves
\* the mirror as it found it.
C17_HitLeavesTheMirrorAlone ==
    (EnsureCalled /\ call.start.exists /\ HasAll(call.start, call.req))
    => /\ call.ops = <<>>
       /\ call.discarded = None
       /\ mirror[call.url] = call.start
       /\ call.op = "_ensure_repo" => call.result = "returned"

\* A mirror that holds both required commits, and an object the upstream
\* has lost since, was asked for the two commits and is still what it was.
C17_Witness ==
    /\ EnsureCalled
    /\ call.op = "_ensure_repo"
    /\ call.req = <<"c1", "c2">>
    /\ call.start = Repo({"c1", "c2", "t1"})
    /\ "t1" \notin remote[call.url]
    /\ call.ops = <<>>
    /\ mirror[call.url] = call.start

\* C18, as claimed: an existing mirror is removed and cloned again only
\* after git fetch ran in it and it still lacked a required commit id
\* afterwards; a mirror that holds every required id after the fetch is
\* kept; and the clone runs without a fetch before it only when there was no
\* mirror.
C18_DiscardOnlyWhenStillLacking ==
    EnsureCalled =>
        /\ (Has(call.ops, "rmtree") /\ call.start.exists)
               => /\ call.ops = <<"fetch", "rmtree", "clone">>
                  /\ ~HasAll(call.discarded, call.req)
        /\ call.ops = <<"rmtree", "clone">> => ~call.start.exists
        /\ call.ops \in {<<>>, <<"fetch">>, <<"rmtree", "clone">>,
                         <<"fetch", "rmtree", "clone">>}

\* C18, amended: an existing mirror is removed and cloned again only after
\* git fetch ran in it and either failed or left a required commit id
\* missing; a mirror that holds every required id after a fetch that
\* succeeded is kept; the clone runs without a fetch before it only when
\* there was no mirror; and a step runs only when the one before it did not
\* return the mirror.
C18_DiscardAfterFailedOrInsufficientFetch ==
    EnsureCalled =>
        /\ (Has(call.ops, "rmtree") /\ call.start.exists)
               => /\ call.ops = <<"fetch", "rmtree", "clone">>
                  /\ \/ call.caught = <<"CalledProcessError">>
                     \/ ~HasAll(call.discarded, call.req)
        /\ (call.ops = <<"fetch">>)
               => /\ call.caught = <<>>
                  /\ ~HasAll(call.start, call.req)
                  /\ HasAll(mirror[call.url], call.req)
        /\ call.ops = <<"rmtree", "clone">> => ~call.start.exists
        /\ Has(call.ops, "fetch")
               => call.start.exists /\ ~HasAll(call.start, call.req)
        /\ call.ops \in {<<>>, <<"fetch">>, <<"rmtree", "clone">>,
                         <<"fetch", "rmtree", "clone">>}

\* A mirror that lacked c2 was fetched into, successfully, from an upstream
\* that does not have c2 either, and was then removed and cloned again.
C18_Witness ==
    /\ EnsureCalled
    /\ call.req = <<"c2">>
    /\ call.start = Repo({"c1"})
    /\ call.caught = <<>>
    /\ call.ops = <<"fetch", "rmtree", "clone">>
    /\ call.discarded = Repo({"c1"})

-----------------------------------------------------------------------------
(* The commits between two versions of a view *)

\* A set of commits of one linear history, oldest first.
RECURSIVE OldestFirst(_)
OldestFirst(commits) ==
    IF commits = {} THEN <<>>
    ELSE LET oldest == CHOOSE h \in commits :
                           \A g \in commits : Depth(h) <= Depth(g)
         IN <<oldest>> \o OldestFirst(commits \ {oldest})

\* The commits reachable from new and not from old, oldest first.
Between(old, new) == OldestFirst(Ancestors(new) \ Ancestors(old))

Tagged(url, branch, commits) ==
    [k \in 1..Len(commits) |-> <<url, branch, commits[k]>>]

\* The view that was committed as h.
ViewAt(h) == CHOOSE v \in NewViews(MaxChanges) : dump(v) = trees[h]

HashesCalled ==
    /\ call # None
    /\ call.op = "get_commit_hashes"
    /\ call.req[1] \in ViewHashes
    /\ call.req[2] \in ViewHashes

FooAt(id) == <<Pinned(foo_entry, id), Pinned(bar_entry, "x")>>

\* C11: when the views of the two hashes differ only in the revision of foo,
\* which moved from A to B, get_commit_hashes returns the commits of foo's
\* repository reachable from B and not from A, oldest first, each with foo's
\* url and branch, followed by the commits of the view's repository
\* reachable from the new hash and not from the old, oldest first, each with
\* the view's url and branch; nothing else, and nothing twice. It returns
\* whenever no command fails.
C11_SingleRebase ==
    \A A \in {"a", "c"}, B \in {"a", "c"} :
        (/\ HashesCalled
         /\ A # B
         /\ ViewAt(call.req[1]) = FooAt(A)
         /\ ViewAt(call.req[2]) = FooAt(B))
        => /\ (\A k \in 1..Len(call.ran) : call.ran[k].ok)
                  => call.result = "returned"
           /\ call.result = "returned"
                  => /\ call.out =
                            Tagged(FooUrl, master, Between(A, B))
                            \o Tagged(ViewUrl, master,
                                      Between(call.req[1], call.req[2]))
                     /\ \A j, k \in 1..Len(call.out) :
                            call.out[j] = call.out[k] => j = k

\* foo moved from a to c between p and r: the call returned b, c of foo and
\* then q, r of the view.
C11_Witness ==
    /\ HashesCalled
    /\ call.req = <<"p", "r">>
    /\ ViewAt("r") = FooAt("c")
    /\ call.result = "returned"
    /\ call.out = <<<<FooUrl, master, "b">>, <<FooUrl, master, "c">>,
                    <<ViewUrl, master, "q">>, <<ViewUrl, master, "r">>>>

ViewDifferCalled ==
    call # None /\ call.op \in {"get_commit_hashes", "get_commits"}

\* C19, as claimed: a git command of the ViewDiffer that exits non-zero,
\* the probe git cat-file apart but git fetch and git clone included, ends
\* the call with its CalledProcessError: no command runs after it and the
\* caller gets the error.
C19_EveryFailurePropagates ==
    ViewDifferCalled =>
        \A k \in 1..Len(call.ran) :
            ~call.ran[k].ok
                => /\ call.result = "CalledProcessError"
                   /\ k = Len(call.ran)

\* C19, amended: a git command of the ViewDiffer that exits non-zero, the
\* probe git cat-file and the cache's git fetch apart, ends the call with
\* its CalledProcessError: no command runs after it and the caller gets the
\* error. That holds for git clone, git show, git log and git log
\* --no-walk. A git fetch that exits non-zero is caught: a clone of the same
\* url is the next command, and the call fails only if a later command does.
C19_FailuresButFetchPropagate ==
    ViewDifferCalled =>
        /\ \A k \in 1..Len(call.ran) :
               (~call.ran[k].ok /\ call.ran[k].cmd # "fetch")
                   => /\ call.result = "CalledProcessError"
                      /\ k = Len(call.ran)
        /\ \A k \in 1..Len(call.ran) :
               (~call.ran[k].ok /\ call.ran[k].cmd = "fetch")
                   => /\ k < Len(call.ran)
                      /\ call.ran[k + 1].cmd = "clone"
                      /\ call.ran[k + 1].url = call.ran[k].url
        /\ call.result # "returned"
               => /\ call.result = "CalledProcessError"
                  /\ call.ran # <<>>
                  /\ ~call.ran[Len(call.ran)].ok

\* git log of the view's repository failed after the two views were read
\* and foo's commits listed: get_commits raised its CalledProcessError.
C19_Witness ==
    /\ ViewDifferCalled
    /\ call.op = "get_commits"
    /\ call.result = "CalledProcessError"
    /\ Len(call.ran) > 3
    /\ call.ran[Len(call.ran)] = Ran("log", ViewUrl, FALSE)

\* The entry of a directory in a view that lists no directory twice.
EntryFor(entries, dir_) ==
    IF \E i \in 1..Len(entries) : entries[i].dir = dir_
    THEN entries[CHOOSE i \in 1..Len(entries) : entries[i].dir = dir_]
    ELSE None

\* The tuples of the directories that both views list, with entries that
\* differ, on the same url and branch.
SameUrlAndBranch(old_view, new_view) ==
    {Task(EntryFor(old_view, d).url, EntryFor(old_view, d).branch,
          EntryFor(old_view, d).revision[1],
          EntryFor(new_view, d).revision[1]) :
        d \in {x \in {foo, bar} :
                  /\ EntryFor(old_view, x) # None
                  /\ EntryFor(new_view, x) # None
                  /\ EntryFor(old_view, x) # EntryFor(new_view, x)
                  /\ EntryFor(old_view, x).url = EntryFor(new_view, x).url
                  /\ EntryFor(old_view, x).branch
                         = EntryFor(new_view, x).branch}}

\* The same, the version control system being the same too.
SameVcsUrlAndBranch(old_view, new_view) ==
    {Task(EntryFor(old_view, d).url, EntryFor(old_view, d).branch,
          EntryFor(old_view, d).revision[1],
          EntryFor(new_view, d).revision[1]) :
        d \in {x \in {foo, bar} :
                  /\ EntryFor(old_view, x) # None
                  /\ EntryFor(new_view, x) # None
                  /\ EntryFor(old_view, x) # EntryFor(new_view, x)
                  /\ EntryFor(old_view, x).vcs = EntryFor(new_view, x).vcs
                  /\ EntryFor(old_view, x).url = EntryFor(new_view, x).url
                  /\ EntryFor(old_view, x).branch
                         = EntryFor(new_view, x).branch}}

\* The commits of the tuples, tuple after tuple, each tuple's oldest first.
RECURSIVE CommitsInTaskOrder(_)
CommitsInTaskOrder(tasks) ==
    IF tasks = <<>> THEN <<>>
    ELSE Tagged(Head(tasks).url, Head(tasks).branch,
                Between(Head(tasks).old_hash, Head(tasks).new_hash))
         \o CommitsInTaskOrder(Tail(tasks))

\* What C20 says of the tuples of a call, given the set of those that the
\* changed directories contribute: these and no others come first, each
\* once, the view's own tuple comes last, and the commits returned are
\* those of the tuples in that order, each tuple's oldest first.
TasksAre(expected) ==
    LET n == Len(call.updated) IN
    /\ n >= 1
    /\ call.updated[n] = Task(ViewUrl, master, call.req[1], call.req[2])
    /\ {call.updated[k] : k \in 1..(n - 1)} = expected
    /\ n - 1 = Cardinality(expected)
    /\ call.result = "returned"
           => call.out = CommitsInTaskOrder(call.updated)

\* C20, as claimed: a changed directory contributes a tuple if and only if
\* both views list it with the same url and branch.
C20_TaskIffSameUrlAndBranch ==
    (HashesCalled /\ call.updated # <<>>)
    => TasksAre(SameUrlAndBranch(ViewAt(call.req[1]), ViewAt(call.req[2])))

\* C20, amended: a changed directory contributes a tuple if and only if both
\* views list it with the same version control system, url and branch;
\* added and removed directories and directories whose vcs, url or branch
\* changed contribute none. The view's own tuple is always last, so its
\* commits come after all others, and each tuple's commits are contiguous
\* and oldest first.
C20_TaskIffSameVcsUrlAndBranch ==
    (HashesCalled /\ call.updated # <<>>)
    => TasksAre(SameVcsUrlAndBranch(ViewAt(call.req[1]),
                                    ViewAt(call.req[2])))

\* foo and bar both moved on their branches: two tuples and the view's,
\* and the commits of the view's repository come last.
C20_Witness ==
    /\ HashesCalled
    /\ call.req = <<"p", "r">>
    /\ call.updated # <<>>
    /\ Len(call.updated) = 3
    /\ call.result = "returned"
    /\ Len(call.out) = 5
    /\ call.out[4] = <<ViewUrl, master, "q">>
    /\ call.out[5] = <<ViewUrl, master, "r">>

-----------------------------------------------------------------------------
(* The rounds of the poller *)

\* Where a command stands among the steps of a round, 0 when it was not run.
At(ran, cmd) ==
    IF \E k \in 1..Len(ran) : ran[k].cmd = cmd
    THEN CHOOSE k \in 1..Len(ran) : ran[k].cmd = cmd
    ELSE 0

Times(ran, cmd) == Cardinality({k \in 1..Len(ran) : ran[k].cmd = cmd})

\* The round that has just ended began with the output branch upstream and
\* with every followed branch where it was when the head of the output
\* branch was made.
QuietRound ==
    /\ loop.last # None
    /\ loop.last.existed
    /\ ~loop.last.moved

\* C12: once the output branch exists, a round in which neither the view's
\* branch nor the branch of any entry without a revision has moved since the
\* last output commit makes no commit, no push and no call of the listener,
\* and two such rounds in a row make none between them.
C12_Quiescence ==
    QuietRound =>
        /\ At(loop.last.ran, "commit") = 0
        /\ At(loop.last.ran, "push") = 0
        /\ At(loop.last.ran, "listener") = 0
        /\ loop.last.pushed = <<>>
        /\ loop.last.calls = <<>>
        /\ (loop.last.prev # None /\ loop.last.prev.quiet) =>
              /\ loop.last.prev.pushed + Len(loop.last.pushed) = 0
              /\ loop.last.prev.calls + Len(loop.last.calls) = 0

\* Two quiet rounds in a row, both run to their sleep, after an output
\* commit that a listener was told of.
C12_Witness ==
    /\ QuietRound
    /\ At(loop.last.ran, "diff-index") > 0
    /\ At(loop.last.ran, "sleep") > 0
    /\ loop.last.prev # None
    /\ loop.last.prev.quiet
    /\ loop.last.prev.raised = ""
    /\ notified # <<>>

\* The round that has just ended began with the output branch upstream and
\* a followed branch moved since the head of the output branch was made.
ChangeRound ==
    /\ loop.last # None
    /\ loop.last.existed
    /\ loop.last.moved

\* C13: a round that runs to its sleep after a followed branch has moved
\* makes exactly one commit, the new head of the output branch on top of the
\* old one, and calls the listener, when there is one, exactly once.
C13_ChangeResponse ==
    (ChangeRound /\ loop.last.raised = "") =>
        /\ Times(loop.last.ran, "commit") = 1
        /\ Len(loop.last.pushed) = 1
        /\ loop.last.pushed[1].parent = loop.last.before
        /\ heads[DestRef] = loop.last.pushed[1]
        /\ heads[DestRef] # loop.last.before
        /\ loop.listener => /\ Len(loop.last.calls) = 1
                            /\ Times(loop.last.ran, "listener") = 1

\* A branch of an entry without a revision moved while the view's branch
\* stayed, and the round committed and told the listener.
C13_Witness ==
    /\ ChangeRound
    /\ loop.last.raised = ""
    /\ loop.listener
    /\ Len(loop.last.calls) = 1
    /\ loop.last.pushed[1].parent # None
    /\ notified = loop.last.calls

\* C14: when the output branch does not exist upstream, the round starts an
\* orphan branch, commits and pushes, and then ends normally: it reaches
\* its sleep and the loop goes on.
C14_FirstCommitCompletes ==
    (/\ loop.last # None
     /\ ~loop.last.existed
     /\ loop.last.is_orphan
     /\ loop.last.pushed # <<>>) =>
        /\ loop.last.raised = ""
        /\ At(loop.last.ran, "sleep") > 0
        /\ loop.pc = "looping"

\* C15: the listener is called only after the commit and then the push have
\* both succeeded, with the view's url, the output branch, the head of the
\* output branch before the commit and its head after; a failed push raises,
\* is not tried again and no listener is called in that round.
C15_CommitPushThenListener ==
    loop.last # None =>
        /\ At(loop.last.ran, "listener") > 0 =>
              /\ Done(loop.last.ran, "commit")
              /\ Done(loop.last.ran, "push")
              /\ At(loop.last.ran, "commit") < At(loop.last.ran, "push")
              /\ At(loop.last.ran, "push") < At(loop.last.ran, "listener")
              /\ loop.last.pushed # <<>>
              /\ loop.last.calls =
                    <<<<ViewUrl, dest_branch(master), loop.last.before,
                        heads[DestRef]>>>>
        /\ (At(loop.last.ran, "push") > 0 /\ ~Done(loop.last.ran, "push")) =>
              /\ loop.last.calls = <<>>
              /\ At(loop.last.ran, "listener") = 0
              /\ loop.last.raised = "CalledProcessError"
              /\ loop.last.ran[Len(loop.last.ran)].cmd = "push"
              /\ Times(loop.last.ran, "push") = 1
              /\ loop.pc = "dead"
              /\ HeadOf(heads, ViewUrl, dest_branch(master)) = loop.last.before

\* A round whose push failed after a round that told the listener.
C15_Witness ==
    /\ loop.last # None
    /\ loop.listener
    /\ notified # <<>>
    /\ At(loop.last.ran, "push") > 0
    /\ ~Done(loop.last.ran, "push")

-----------------------------------------------------------------------------
(* The errors of a batch update *)

\* Whether the repository of a directory is as the entry left it: what
\* update_repo requires before it touches an existing repository.
Pristine(repo, entry) ==
    /\ ~repo.broken
    /\ repo.origin = entry.url
    /\ repo.dirty = "clean"
    /\ IF entry.revision = HEAD
       THEN repo.branch = entry.branch /\ ~repo.ahead
       ELSE repo.head = entry.revision

\* The directories whose repositories update_repos must refuse to touch, in
\* the order of the viewfile.
Refused(k) ==
    LET entry == batch.entries[k]
        repo == batch.start[entry.dir]
        old == IF entry.dir \in Dirs(batch.old_view)
               THEN batch.old_view[FirstIndex(batch.old_view, entry.dir)]
               ELSE entry
    IN /\ repo.there
       /\ IF batch.force THEN ~repo.broken /\ repo.origin # entry.url
          ELSE ~Pristine(repo, old)

RECURSIVE RefusedDirs(_)
RefusedDirs(k) ==
    IF k > Len(batch.entries) THEN <<>>
    ELSE (IF Refused(k) THEN <<batch.entries[k].dir>> ELSE <<>>)
             \o RefusedDirs(k + 1)

\* C16: in update_repos an UpdateError for one entry does not end the
\* batch: the entries are attempted in the order of the viewfile, the entry
\* after one that raised UpdateError is attempted, UpdateError never leaves
\* update_repos, and when no other exception ends the loop every entry has
\* been attempted and all the (directory, error) pairs are reported after
\* the last one.
C16_UpdateErrorsAreCollected ==
    batch # None =>
        /\ Len(batch.attempted) <= Len(batch.entries)
        /\ \A k \in 1..Len(batch.attempted) :
              batch.attempted[k] = batch.entries[k].dir
        /\ \A k \in 1..Len(batch.attempted) :
              (Refused(k) /\ k < Len(batch.entries)) =>
                  Len(batch.attempted) > k
        /\ batch.raised # "UpdateError"
        /\ batch.raised = "" =>
              /\ Len(batch.attempted) = Len(batch.entries)
              /\ batch.reported = batch.errors
              /\ [k \in 1..Len(batch.reported) |-> batch.reported[k][1]]
                     = RefusedDirs(1)

\* The first entry was refused, the second was updated, and the one error
\* was reported at the end.
C16_Witness ==
    /\ batch # None
    /\ batch.raised = ""
    /\ Len(batch.entries) = 2
    /\ Refused(1)
    /\ ~Refused(2)
    /\ Len(batch.reported) = 1
    /\ work.repos[batch.entries[2].dir] = CheckedOut(batch.entries[2])
    /\ work.repos[batch.entries[2].dir] # batch.start[batch.entries[2].dir]

-----------------------------------------------------------------------------
(* The Commit records of get_commits *)

CommitsCalled ==
    /\ call # None
    /\ call.op = "get_commits"
    /\ call.result = "returned"

\* The sequence that get_commit_hashes gives for the same arguments on
\* the cache as the call left it, every command succeeding.
Enumerated ==
    get_commit_hashes(mirror, trees, hash_order, ViewUrl, master,
                      call.req[1], call.req[2], Env({}, "none")).out

\* C21: every Commit that get_commits returns has view_repository and
\* view_branch both None exactly when its repository and branch are the
\* view's, and otherwise both set to the view's url and branch; its
\* repository, branch and revision are those of the enumerated sequence at
\* the same position.
C21_ParentMarking ==
    CommitsCalled =>
        /\ Len(call.out) = Len(Enumerated)
        /\ \A k \in 1..Len(call.out) :
              LET c == call.out[k]
                  own == c.repository = ViewUrl /\ c.branch = master
              IN /\ <<c.repository, c.branch, c.revision>> = Enumerated[k]
                 /\ own => c.view_repository = None /\ c.view_branch = None
                 /\ ~own => /\ c.view_repository = Some(ViewUrl)
                            /\ c.view_branch = Some(master)

\* get_commits returned commits of the view and of another repository.
C21_Witness ==
    /\ CommitsCalled
    /\ \E k \in 1..Len(call.out) : call.out[k].repository = ViewUrl
    /\ \E k \in 1..Len(call.out) : call.out[k].repository # ViewUrl

-----------------------------------------------------------------------------
(* Two runs of get_commit_hashes *)

HashesReturned == HashesCalled /\ call.result = "returned"

-----------------------------------------------------------------------------
(* A round that fails *)

\* The steps of a round that come after the commit.
AfterCommit == {"push", "rev-parse HEAD^", "rev-parse HEAD", "listener"}

\* The steps of the last round that raised and come before the push.
FailedBeforePush ==
    {k \in 1..Len(loop.last.ran) :
        /\ loop.last.ran[k].raised # ""
        /\ loop.last.ran[k].cmd \notin AfterCommit}

\* C23: when a step of a round before the push fails (fetch, rev-parse,
\* show, parse, ls-remote, checkout, reset, add, commit), it is the last
\* step of the round and the loop ends: no push, no call of the listener,
\* no sleep, and the output branch upstream is as it was before the round.
C23_FailureBeforePushIsFatal ==
    (loop.last # None /\ FailedBeforePush # {}) =>
        /\ FailedBeforePush = {Len(loop.last.ran)}
        /\ loop.last.raised # ""
        /\ loop.pc = "dead"
        /\ At(loop.last.ran, "push") = 0
        /\ At(loop.last.ran, "listener") = 0
        /\ At(loop.last.ran, "sleep") = 0
        /\ loop.last.pushed = <<>>
        /\ loop.last.calls = <<>>
        /\ HeadOf(heads, ViewUrl, dest_branch(master)) = loop.last.before

\* The last round ended at a step that raised, the output branch being
\* there.
FailedAt(cmd, raised) ==
    /\ loop.last # None
    /\ loop.last.existed
    /\ loop.last.ran[Len(loop.last.ran)].cmd = cmd
    /\ loop.last.raised = raised

\* git commit failed in a round that had a change to commit, after a round
\* that told the listener.
C23_Witness ==
    /\ FailedAt("commit", "CalledProcessError")
    /\ loop.last.moved
    /\ notified # <<>>

-----------------------------------------------------------------------------
(* The order of the steps of a round *)

\* The state of the loop that a step belongs to: 1 fetching, 2 reading the
\* manifest, 3 locking, 4 checking out the output branch, 5 writing,
\* 6 deciding, 7 committing and notifying, 8 sleeping.
Phase(cmd) ==
    CASE cmd = "fetch" -> 1
      [] cmd \in {"rev-parse", "show", "parse"} -> 2
      [] cmd \in {"ls-remote", "append"} -> 3
      [] cmd \in {"show-ref", "checkout", "reset", "checkout --orphan"} -> 4
      [] cmd \in {"dump", "add"} -> 5
      [] cmd = "diff-index" -> 6
      [] cmd \in {"commit", "push", "rev-parse HEAD^", "rev-parse HEAD",
                  "listener"} -> 7
      [] cmd = "sleep" -> 8

Phases(ran) == {Phase(ran[k].cmd) : k \in 1..Len(ran)}

\* C24: every round starts with the fetch and takes its steps in the order
\* fetching, reading, locking, checking out, writing, deciding, then
\* committing and notifying or nothing, then sleeping; a round in which no
\* step fails goes through all of them and ends with the sleep, after a
\* commit as after a decision not to commit, and the loop goes on: it ends
\* only by a step that raises.
C24_StepsInOrder ==
    /\ loop.last # None =>
          LET ran == loop.last.ran IN
          /\ ran[1].cmd = "fetch"
          /\ \A j, k \in 1..Len(ran) :
                j < k => Phase(ran[j].cmd) <= Phase(ran[k].cmd)
          /\ \A k \in 1..Len(ran) : Times(ran, ran[k].cmd) = 1
                                        \/ ran[k].cmd = "ls-remote"
          /\ loop.last.raised = "" =>
                /\ ran[Len(ran)].cmd = "sleep"
                /\ {1, 2, 3, 4, 5, 8} \subseteq Phases(ran)
                /\ 7 \in Phases(ran) \/ 6 \in Phases(ran)
                /\ 6 \in Phases(ran) <=> loop.last.existed
                /\ loop.pc = "looping"
    /\ loop.pc = "dead" => loop.last = None \/ loop.last.raised # ""

\* A round that committed and slept, after a round that decided not to
\* commit and slept.
C24_Witness ==
    /\ loop.last # None
    /\ loop.last.raised = ""
    /\ At(loop.last.ran, "commit") > 0
    /\ At(loop.last.ran, "sleep") > 0
    /\ loop.last.prev # None
    /\ loop.last.prev.raised = ""
    /\ loop.last.prev.pushed = 0

-----------------------------------------------------------------------------
(* What a round writes to the output branch *)

\* The view that the head of the view's branch held when the last commit
\* was pushed (loop.made_from: the heads upstream in that round), from the
\* viewfiles that its commits can hold.
ViewRead ==
    CHOOSE v \in {PollerViews[h] : h \in ViewHashes}
                     \cup {<<foo_dev_entry, bar_entry>>} :
        dump(v) = trees[loop.made_from[Ref(ViewUrl, master)]]

\* An entry with the head of its branch for a revision when it had none.
Locked(entry) ==
    IF entry.revision = HEAD
    THEN [entry EXCEPT
             !.revision = <<loop.made_from[Ref(entry.url, entry.branch)]>>]
    ELSE entry

\* C25: the viewfile of every commit pushed to the output branch holds the
\* entries of the view just read, in order, those without a revision given
\* the head of their branch and the others unchanged, then one entry
\* '.unversioned_view' with the view's url, its branch and the commit just
\* read; no entry is left with the revision HEAD.
C25_SnapshotContent ==
    (loop.last # None /\ loop.last.pushed # <<>>) =>
        LET written == parse(loop.last.pushed[1].tree)
            n == Len(ViewRead)
        IN /\ ~written.raised
           /\ Len(written.entries) = n + 1
           /\ \A k \in 1..n : written.entries[k] = Locked(ViewRead[k])
           /\ written.entries[n + 1] =
                 ViewFileEntry(unversioned_view, ViewUrl, GIT, master,
                               <<loop.made_from[Ref(ViewUrl, master)]>>)
           /\ \A k \in 1..(n + 1) : written.entries[k].revision # HEAD

\* A commit was pushed whose view has an entry that was given the head of
\* its branch and an entry that had a revision.
C25_Witness ==
    /\ loop.last # None
    /\ loop.last.pushed # <<>>
    /\ \E k \in 1..Len(ViewRead) : ViewRead[k].revision = HEAD
    /\ \E k \in 1..Len(ViewRead) : ViewRead[k].revision # HEAD

-----------------------------------------------------------------------------
(* The branches that the loop writes *)

\* C26: a step of the poller changes no branch upstream but the output
\* branch versioned/<branch> of the view's repository: the view's branch
\* and the branches of the other repositories are as they were, and no
\* other branch appears.
C26_OnlyTheOutputBranchIsWritten ==
    [][loop' # loop =>
          /\ DOMAIN heads' \subseteq DOMAIN heads \cup {DestRef}
          /\ \A ref \in DOMAIN heads \ {DestRef} :
                ref \in DOMAIN heads' /\ heads'[ref] = heads[ref]]_vars

\* The loop has pushed a second commit to the output branch, made when the
\* branches it reads were no more where they started.
C26_Witness ==
    /\ loop.last # None
    /\ loop.last.pushed # <<>>
    /\ loop.last.pushed[1].parent # None
    /\ \E ref \in Tracked : heads[ref] # TipsOf(ref)[1]
    /\ heads[DestRef] = loop.last.pushed[1]

-----------------------------------------------------------------------------
(* The calls of the listener, one after the other *)

\* C27: of two calls of the listener in a row, the later one's previous
\* commit is the earlier one's new commit, and the new commit of every call
\* is a child of its previous commit: the ranges told follow one another on
\* the output branch.
C27_NotificationsChain ==
    /\ \A k \in 1..Len(notified) :
          /\ notified[k][4].parent = notified[k][3]
          /\ notified[k][4] # notified[k][3]
    /\ \A k \in 1..(Len(notified) - 1) :
          notified[k + 1][3] = notified[k][4]
    /\ notified # <<>> => notified[Len(notified)][4] = heads[DestRef]

\* The listener was called twice.
C27_Witness ==
    /\ Len(notified) >= 2
    /\ loop.last # None
    /\ loop.last.calls # <<>>

-----------------------------------------------------------------------------
(* The repositories that an update leaves alone *)

\* The entry that update_repos hands to update_repo as the old one for the
\* k-th entry of the viewfile.
OldEntryOf(k) ==
    LET entry == batch.entries[k]
    IN IF entry.dir \in Dirs(batch.old_view)
       THEN batch.old_view[FirstIndex(batch.old_view, entry.dir)]
       ELSE entry

\* C28: an update without force of a repository that exists and is not as
\* the old entry left it (other origin, revision or branch, unpushed, staged
\* or unstaged changes, or a status that cannot be read) runs no command in
\* it, leaves it as it was and raises UpdateError; an update with force runs
\* no command and raises UpdateError when the origin is not the entry's
\* url, and goes on to git remote set-url whenever it is, whatever else has
\* changed.
C28_LocalChangesAreNotTouched ==
    batch # None =>
        \A k \in 1..Len(batch.attempted) :
            LET entry == batch.entries[k]
                repo == batch.start[entry.dir]
                told == {batch.errors[i] : i \in
                            {j \in 1..Len(batch.errors) :
                                batch.errors[j][1] = entry.dir}}
            IN repo.there =>
                /\ (~batch.force /\ ~Pristine(repo, OldEntryOf(k))) =>
                      /\ batch.cmds[k] = <<>>
                      /\ batch.finish[entry.dir] = repo
                      /\ told # {}
                /\ (~batch.force /\ Pristine(repo, OldEntryOf(k))) =>
                      /\ told = {}
                      /\ batch.cmds[k] # <<>>
                      /\ batch.cmds[k][1] = "set-url"
                /\ (batch.force /\ ~repo.broken
                        /\ repo.origin # entry.url) =>
                      /\ batch.cmds[k] = <<>>
                      /\ batch.finish[entry.dir] = repo
                      /\ told = {<<entry.dir, "has changed origin">>}
                /\ (batch.force /\ ~repo.broken
                        /\ repo.origin = entry.url) =>
                      /\ told = {}
                      /\ batch.cmds[k] # <<>>
                      /\ batch.cmds[k][1] = "set-url"

\* An update without force met a repository with staged changes next to one
\* without changes: the first was left alone, the second was pulled.
C28_Witness ==
    /\ batch # None
    /\ ~batch.force
    /\ Len(batch.attempted) = 2
    /\ \E k \in 1..2 :
          /\ batch.start[batch.entries[k].dir].there
          /\ batch.start[batch.entries[k].dir].dirty = "staged"
          /\ batch.cmds[k] = <<>>
          /\ batch.finish[batch.entries[k].dir].dirty = "staged"
          /\ batch.cmds[3 - k] # <<>>
          /\ batch.cmds[3 - k][1] = "set-url"

-----------------------------------------------------------------------------
(* The cache directory when the with block of a ViewDiffer ends *)

\* The with block of the ViewDiffer ends in this step.
Exits == differ # None /\ differ.pc = "entered" /\ differ'.pc = "exited"

\* C29: when the with block of a ViewDiffer made without a cache directory
\* ends, with or without an exception, its temporary directory and all
\* below it are gone and nothing else is; when the block of a ViewDiffer made with a cache directory ends, no path
\* is removed, and what the cache held stays.
C29_ScopedCache ==
    /\ [][Exits =>
            /\ differ'.self = differ.self
            /\ IF differ.self._remove_cache
               THEN /\ \A p \in paths' : ~Under(differ.self._cache_dir, p)
                    /\ \A p \in paths :
                          ~Under(differ.self._cache_dir, p) => p \in paths'
                    /\ paths' \subseteq paths
               ELSE paths' = paths]_vars
    /\ [](differ # None =>
            /\ differ.self._remove_cache <=> differ.self._cache_dir \in TempDirs
            /\ (differ.pc = "exited" /\ differ.self._remove_cache) =>
                  \A p \in paths : ~Under(differ.self._cache_dir, p)
            /\ (differ.pc = "exited" /\ ~differ.self._remove_cache) =>
                  differ.held \subseteq paths)

\* A block that cloned both mirrors into a temporary cache ended by an
\* exception, and the directory is gone.
C29_Witness ==
    /\ differ # None
    /\ differ.pc = "exited"
    /\ differ.exc = "CalledProcessError"
    /\ differ.self._remove_cache
    /\ Cardinality(differ.held) = 3
    /\ differ.held \cap paths = {}

\* A block with a named cache directory ended by an exception.
NamedCacheKept ==
    /\ differ # None
    /\ differ.pc = "exited"
    /\ differ.exc = "CalledProcessError"
    /\ ~differ.self._remove_cache
    /\ Cardinality(differ.held) = 3

-----------------------------------------------------------------------------
(* The walk up to the root *)

\* A directory and the directories above it, innermost first, the root last.
UpToRoot(dir_) ==
    [i \in 1..(Len(dir_) + 1) |-> SubSeq(dir_, 1, Len(dir_) + 1 - i)]

\* The places on the way up whose directory holds a file view.txt.
ViewsAbove(way) == {i \in 1..Len(way) : way[i] \in walk.views}

Innermost(way) ==
    CHOOSE i \in ViewsAbove(way) : \A j \in ViewsAbove(way) : i <= j

WalkIsRight ==
    walk # None =>
        LET way == UpToRoot(realpath(walk.top))
        IN /\ Len(walk.yielded) <= Len(way)
           /\ \A i \in 1..Len(walk.yielded) : walk.yielded[i] = way[i]
           /\ (walk.pc = "done" /\ walk.reader = "list") =>
                 walk.yielded = way
           /\ (walk.pc = "done" /\ walk.reader = "command") =>
                 IF ViewsAbove(way) = {}
                 THEN /\ walk.found = None
                      /\ walk.yielded = way
                      /\ walk.raised = "NotInViewError"
                      /\ walk.status = Some(1)
                 ELSE /\ walk.found = Some(way[Innermost(way)])
                      /\ Len(walk.yielded) = Innermost(way)
                      /\ walk.raised = ""
                      /\ walk.status = None

\* C30: walk_up yields the start directory and then every directory above
\* it once, innermost first, the root last, and then returns; every walk
\* ends. find_enclosing_view returns the first of them that holds a file
\* view.txt; when none does it returns None, find_enclosing_view_checked
\* raises NotInViewError and the command returns the status 1.
C30_WalkUpTerminates ==
    /\ []WalkIsRight
    /\ (walk # None /\ walk.pc = "walking") ~> (walk # None /\ walk.pc = "done")

\* A command started MaxDepth directories below the root, in a tree with
\* views that do not enclose it, walked to the root and returned 1.
C30_Witness ==
    /\ walk # None
    /\ walk.pc = "done"
    /\ walk.reader = "command"
    /\ Len(walk.yielded) = MaxDepth + 1
    /\ walk.yielded[Len(walk.yielded)] = <<>>
    /\ walk.views # {}
    /\ walk.decoys # {}
    /\ walk.status = Some(1)

\* A command inside two nested views found the inner one.
InnermostFound ==
    /\ walk # None
    /\ walk.pc = "done"
    /\ walk.reader = "command"
    /\ Cardinality(ViewsAbove(UpToRoot(realpath(walk.top)))) = 2
    /\ walk.found # None
    /\ Len(walk.yielded) = 2

=============================================================================
